---- MODULE Spec2Model ----
(***************************************************************************)
(* A model of the OpenMetrics text parser of src/openmetrics/parsers.rs:   *)
(* the top-level driver parse_openmetrics, the per-family loop             *)
(* parse_metric_family, the descriptor and sample handlers, the family     *)
(* builder's process_new_metric with its per-type handler table, and the   *)
(* validators run when a family block ends.                                *)
(*                                                                         *)
(* The grammar front-end is outside the file: the model consumes the rule  *)
(* stream it produces (metricfamily blocks made of metricdescriptor and    *)
(* sample children, and kw_eof), one rule per step.                        *)
(***************************************************************************)
EXTENDS Integers, Sequences, FiniteSets, TLC

VARIABLES
    pc,            \* "loop": between top-level rules, "family": inside a block, "done"
    exposition,    \* MetricsExposition.families, in insertion order
    found_eof,     \* the driver's found_eof flag
    family,        \* the MetricFamilyMarshal of the block being parsed
    ret,           \* what parse_openmetrics returned (None while running)
    hist           \* bookkeeping of the run: counters and the trace of the block

vars == <<pc, exposition, found_eof, family, ret, hist>>

(***************************************************************************)
(* Bounds of the model.                                                    *)
(***************************************************************************)
MaxLines == 3       \* sample lines in the whole exposition
MaxFamilies == 2    \* metricfamily blocks in the exposition
MaxDesc == 2        \* descriptor lines in one block

(***************************************************************************)
(* Option<T>: None is the empty sequence, Some(x) the one-element one.     *)
(***************************************************************************)
None == <<>>
Some(x) == <<x>>
IsSome(o) == Len(o) = 1
IsNone(o) == Len(o) = 0
Unwrap(o) == o[1]

Contains(s, x) == \E i \in 1..Len(s) : s[i] = x
Position(s, x) == CHOOSE i \in 1..Len(s) : s[i] = x /\ \A j \in 1..(i-1) : s[j] # x
Remove(s, i) == [j \in 1..(Len(s)-1) |-> IF j < i THEN s[j] ELSE s[j+1]]

(***************************************************************************)
(* f64 values, in units of one half so that 0.5 is representable:          *)
(* c is "fin", "nan", "pinf" or "ninf", and h is twice the value.          *)
(* MetricNumber is Int(i64) or Float(f64).                                 *)
(***************************************************************************)
Fin(h) == [c |-> "fin", h |-> h]
NaN == [c |-> "nan", h |-> 0]
PInf == [c |-> "pinf", h |-> 0]
NInf == [c |-> "ninf", h |-> 0]

\* IEEE-754 comparisons: every comparison with NaN is false.
FLt(a, b) ==
    CASE a.c = "nan" \/ b.c = "nan" -> FALSE
      [] a.c = "pinf" -> FALSE
      [] b.c = "ninf" -> FALSE
      [] a.c = "ninf" -> TRUE
      [] b.c = "pinf" -> TRUE
      [] OTHER -> a.h < b.h
FEq(a, b) == a.c # "nan" /\ b.c # "nan" /\ a = b
FGe(a, b) == FEq(a, b) \/ FLt(b, a)
FLe(a, b) == FEq(a, b) \/ FLt(a, b)
IsNaN(a) == a.c = "nan"
Zero == Fin(0)
One == Fin(2)

MInt(n) == [k |-> "Int", n |-> n, f |-> Zero]
MFloat(x) == [k |-> "Float", n |-> 0, f |-> x]

as_f64(m) == IF m.k = "Int" THEN Fin(2 * m.n) ELSE m.f
as_i64(m) ==
    IF m.k = "Int" THEN Some(m.n)
    ELSE IF m.f.c = "fin" /\ m.f.h % 2 = 0 THEN Some(m.f.h \div 2)
    ELSE None

(***************************************************************************)
(* Text tokens and what str::parse makes of them.  A sample value is tried *)
(* as an integer first and as a float second (parse_sample); label values  *)
(* `le` and `quantile` are parsed as f64 by the handlers.                  *)
(***************************************************************************)
IntTokens == {"-1", "0", "1", "2"}
IntOf(t) == CASE t = "-1" -> -1 [] t = "0" -> 0 [] t = "1" -> 1 [] t = "2" -> 2
FloatTokens == IntTokens \cup {"0.5", "1.0", "NaN", "+Inf", "-1.0"}
ParseF64(t) ==
    CASE t \in IntTokens -> Some(Fin(2 * IntOf(t)))
      [] t = "0.5" -> Some(Fin(1))
      [] t = "1.0" -> Some(Fin(2))
      [] t = "-1.0" -> Some(Fin(-2))
      [] t = "NaN" -> Some(NaN)
      [] t = "+Inf" -> Some(PInf)
      [] OTHER -> None
ParseValue(t) ==
    IF t \in IntTokens THEN Some(MInt(IntOf(t)))
    ELSE IF IsSome(ParseF64(t)) THEN Some(MFloat(Unwrap(ParseF64(t))))
    ELSE None

(***************************************************************************)
(* Names (of metrics, families and labels) are sequences of atoms: a base  *)
(* name followed by suffix atoms, so <<"a", "_total">> is a_total and      *)
(* Str("a") is a.  No atom is a suffix of another, so                      *)
(* str::ends_with(suffix) looks at the last atom only, and every string    *)
(* ends with the empty suffix.                                             *)
(***************************************************************************)
Str(atom) == <<atom>>
Suffixes == {"_total", "_created", "_bucket", "_count", "_sum", "_gcount", "_gsum", "_info"}
EndsWith(name, suffix) ==
    suffix = "" \/ (Len(name) > 0 /\ name[Len(name)] = suffix)
\* str::trim_end_matches: strips every trailing repetition of the suffix.
RECURSIVE TrimEndMatches(_, _)
TrimEndMatches(name, suffix) ==
    IF suffix # "" /\ Len(name) > 0 /\ name[Len(name)] = suffix
    THEN TrimEndMatches(SubSeq(name, 1, Len(name) - 1), suffix)
    ELSE name

(***************************************************************************)
(* Result<T, ParseError>.  ParseError is InvalidMetric(message) or         *)
(* DuplicateMetric; the messages are shortened to identifiers.             *)
(***************************************************************************)
InvalidMetric(msg) == [tag |-> "Err", kind |-> "InvalidMetric", msg |-> msg]
DuplicateMetric == [tag |-> "Err", kind |-> "DuplicateMetric", msg |-> ""]
Ok(v) == [tag |-> "Ok", v |-> v]
IsErr(r) == r.tag = "Err"
IsOk(r) == r.tag = "Ok"

(***************************************************************************)
(* OpenMetricsType and its MetricsType implementation.                     *)
(***************************************************************************)
OpenMetricsTypes ==
    {"Counter", "Gauge", "Histogram", "GaugeHistogram", "StateSet", "Summary", "Info", "Unknown"}

TypeTryFrom(text) ==
    CASE text = "counter" -> Ok("Counter")
      [] text = "gauge" -> Ok("Gauge")
      [] text = "histogram" -> Ok("Histogram")
      [] text = "gaugehistogram" -> Ok("GaugeHistogram")
      [] text = "stateset" -> Ok("StateSet")
      [] text = "summary" -> Ok("Summary")
      [] text = "info" -> Ok("Info")
      [] text = "unknown" -> Ok("Unknown")
      [] OTHER -> InvalidMetric("Invalid metric type")

\* Mutant: a family without type is taken for a Gauge.
TypeDefaultGauge == "Gauge"
TypeDefault == "Unknown"
UnwrapOrDefault(o) == IF IsSome(o) THEN Unwrap(o) ELSE TypeDefault

\* Mutant: every sample of every type may carry an exemplar.
CanHaveExemplarAlways(type, metric_name) == TRUE

can_have_exemplar(type, metric_name) ==
    CASE type = "Counter" -> EndsWith(metric_name, "_total")
      [] type \in {"Histogram", "GaugeHistogram"} -> EndsWith(metric_name, "_bucket")
      [] OTHER -> FALSE

\* ends_with("bucket"): of the atoms of the model only _bucket ends so.
get_ignored_labels(type, metric_name) ==
    IF type \in {"Histogram", "GaugeHistogram"} /\ EndsWith(metric_name, "_bucket")
    THEN <<Str("le")>>
    ELSE <<>>

HistogramDefault == [buckets |-> <<>>, sum |-> None, count |-> None, created |-> None]
\* CounterValueMarshal::default(): no total, no exemplar, no creation time.
get_type_value(type) ==
    CASE type = "Histogram" -> [t |-> "Histogram", h |-> HistogramDefault]
      [] type = "GaugeHistogram" -> [t |-> "GaugeHistogram", h |-> HistogramDefault]
      [] type = "Counter" ->
            [t |-> "Counter", value |-> None, exemplar |-> None, created |-> None]
      [] type = "Unknown" -> [t |-> "Unknown", v |-> None]
      [] type = "Gauge" -> [t |-> "Gauge", v |-> None]
      [] type = "StateSet" -> [t |-> "StateSet", v |-> None]
      [] type = "Summary" ->
            [t |-> "Summary", quantiles |-> <<>>, sum |-> None, count |-> None, created |-> None]
      [] type = "Info" -> [t |-> "Info"]

can_have_units(type) == type \in {"Counter", "Unknown", "Gauge"}

can_have_multiple_lines(type) ==
    type \in {"Counter", "GaugeHistogram", "Histogram", "Summary"}

(***************************************************************************)
(* The family builder's data and the operations it has outside this file.  *)
(***************************************************************************)
EmptyFamily ==
    [name |-> None, label_names |-> None, family_type |-> None, help |-> None,
     unit |-> None, metrics |-> <<>>, current_label_set |-> None,
     seen_label_sets |-> <<>>]

MetricMarshalNew(label_values, timestamp, value) ==
    [label_values |-> label_values, timestamp |-> timestamp, value |-> value]

\* The names that are not ignored labels of the sample, with the type.
LabelNamesNew(sample_name, type, labels) ==
    [names |-> SelectSeq(labels, LAMBDA n : ~Contains(get_ignored_labels(type, sample_name), n)),
     metric_type |-> type]

\* First sample: bind.  Later samples: the names must be the bound ones.
try_set_label_names(fam, sample_name, names) ==
    IF IsNone(fam.label_names)
    THEN Ok([fam EXCEPT !.label_names = Some(names)])
    ELSE IF Unwrap(fam.label_names).names # names.names
    THEN InvalidMetric("Family has different label names")
    ELSE Ok(fam)

\* The index of the first sample with these label values, 0 when there is none.
get_metric_by_labelset(fam, label_values) ==
    IF \E i \in 1..Len(fam.metrics) : fam.metrics[i].label_values = label_values
    THEN CHOOSE i \in 1..Len(fam.metrics) :
            /\ fam.metrics[i].label_values = label_values
            /\ \A j \in 1..(i-1) : fam.metrics[j].label_values # label_values
    ELSE 0

add_metric(fam, metric) == [fam EXCEPT !.metrics = Append(@, metric)]

set_or_test_name(fam, name) ==
    IF IsSome(fam.name) /\ Unwrap(fam.name) # name
    THEN InvalidMetric("Invalid metric name in family")
    ELSE Ok([fam EXCEPT !.name = Some(name)])

try_add_help(fam, help) ==
    IF IsSome(fam.help) THEN InvalidMetric("Family already has help")
    ELSE Ok([fam EXCEPT !.help = Some(help)])

try_add_type(fam, type) ==
    IF IsSome(fam.family_type) THEN InvalidMetric("Family already has a type")
    ELSE Ok([fam EXCEPT !.family_type = Some(type)])

try_add_unit(fam, unit) ==
    IF IsSome(fam.unit) THEN InvalidMetric("Family already has a unit")
    ELSE IF ~can_have_units(UnwrapOrDefault(fam.family_type))
    THEN InvalidMetric("Type cannot have units")
    ELSE Ok([fam EXCEPT !.unit = Some(unit)])

(***************************************************************************)
(* The handler table of process_new_metric: for each type the rows         *)
(* (suffix, mandatory labels, action) in the order of the source, and the  *)
(* actions.  An action gets the sample found or created for the labelset,  *)
(* the value, the labels as written on the line (mandatory ones included), *)
(* the exemplar and the created flag; it yields the sample as it left it,  *)
(* or an error.                                                            *)
(***************************************************************************)
Row(suffix, mandatory, action) ==
    [suffix |-> suffix, mandatory |-> mandatory, action |-> action]

\* Mutant: GaugeHistogram has the rows of Histogram as well as its own, and
\* Histogram those of GaugeHistogram.
HandlersHistogramRowsShared(type) ==
    CASE type \in {"Histogram", "GaugeHistogram"} ->
            << Row("_bucket", <<Str("le")>>, "bucket"), Row("_count", <<>>, "hcount"),
               Row("_created", <<>>, "hcreated"), Row("_sum", <<>>, "hsum"),
               Row("_gcount", <<>>, "hcount"), Row("_gsum", <<>>, "hsum") >>
      [] type = "Counter" ->
            << Row("_total", <<>>, "total"), Row("_created", <<>>, "ccreated") >>
      [] type = "Gauge" -> << Row("", <<>>, "scalar") >>
      [] type = "StateSet" -> << Row("", <<>>, "stateset") >>
      [] type = "Unknown" -> << Row("", <<>>, "scalar") >>
      [] type = "Info" -> << Row("_info", <<>>, "info") >>
      [] type = "Summary" ->
            << Row("_count", <<>>, "scount"), Row("_sum", <<>>, "ssum"),
               Row("", <<Str("quantile")>>, "quantile") >>

Handlers(type) ==
    CASE type = "Histogram" ->
            << Row("_bucket", <<Str("le")>>, "bucket"), Row("_count", <<>>, "hcount"),
               Row("_created", <<>>, "hcreated"), Row("_sum", <<>>, "hsum") >>
      [] type = "GaugeHistogram" ->
            << Row("_bucket", <<Str("le")>>, "bucket"), Row("_gcount", <<>>, "hcount"),
               Row("_gsum", <<>>, "hsum") >>
      [] type = "Counter" ->
            << Row("_total", <<>>, "total"), Row("_created", <<>>, "ccreated") >>
      [] type = "Gauge" -> << Row("", <<>>, "scalar") >>
      [] type = "StateSet" -> << Row("", <<>>, "stateset") >>
      [] type = "Unknown" -> << Row("", <<>>, "scalar") >>
      [] type = "Info" -> << Row("_info", <<>>, "info") >>
      [] type = "Summary" ->
            << Row("_count", <<>>, "scount"), Row("_sum", <<>>, "ssum"),
               Row("", <<Str("quantile")>>, "quantile") >>

\* Mutant: the bucket is put before the buckets the sample has.
BucketActionPrepends(m, metric_value, label_names, label_values, exemplar, created) ==
    LET bound == ParseF64(label_values[Position(label_names, Str("le"))])
    IN  IF IsNone(bound) THEN InvalidMetric("Invalid histogram bound")
        ELSE [tag |-> "Ok",
              v |-> [m EXCEPT !.value.h.buckets =
                        <<[count |-> metric_value, upper_bound |-> Unwrap(bound),
                           exemplar |-> exemplar]>> \o @]]

\* Histogram and GaugeHistogram `_bucket`.
BucketAction(m, metric_value, label_names, label_values, exemplar, created) ==
    LET bound == ParseF64(label_values[Position(label_names, Str("le"))])
    IN  IF IsNone(bound) THEN InvalidMetric("Invalid histogram bound")
        ELSE Ok([m EXCEPT !.value.h.buckets =
                    Append(@, [count |-> metric_value, upper_bound |-> Unwrap(bound),
                               exemplar |-> exemplar])])

\* Mutant: a count replaces the one the sample has.
HistCountActionOverwrites(m, metric_value, label_names, label_values, exemplar, created) ==
    LET i == as_i64(metric_value)
    IN  IF IsNone(i) THEN InvalidMetric("Histogram counts must be integers")
        ELSE IF Unwrap(i) < 0 THEN InvalidMetric("Histogram counts must be positive")
        ELSE [tag |-> "Ok", v |-> [m EXCEPT !.value.h.count = Some(Unwrap(i))]]

\* Histogram `_count`, GaugeHistogram `_gcount`.
HistCountAction(m, metric_value, label_names, label_values, exemplar, created) ==
    LET i == as_i64(metric_value)
    IN  IF IsNone(i) THEN InvalidMetric("Histogram counts must be integers")
        ELSE IF Unwrap(i) < 0 THEN InvalidMetric("Histogram counts must be positive")
        ELSE IF IsSome(m.value.h.count) THEN DuplicateMetric
        ELSE Ok([m EXCEPT !.value.h.count = Some(Unwrap(i))])

\* Histogram `_created`.
HistCreatedAction(m, metric_value, label_names, label_values, exemplar, created) ==
    IF IsSome(m.value.h.created) THEN DuplicateMetric
    ELSE Ok([m EXCEPT !.value.h.created = Some(as_f64(metric_value))])

\* Histogram `_sum`, GaugeHistogram `_gsum`.
HistSumAction(m, metric_value, label_names, label_values, exemplar, created) ==
    IF IsSome(m.value.h.sum) THEN DuplicateMetric
    ELSE Ok([m EXCEPT !.value.h.sum = Some(metric_value)])

\* Mutant: the total is stored whatever its value.
CounterTotalActionUnchecked(m, metric_value, label_names, label_values, exemplar, created) ==
    IF IsSome(m.value.value) THEN DuplicateMetric
    ELSE [tag |-> "Ok", v |-> [m EXCEPT !.value.value = Some(metric_value)]]

\* Counter `_total`: the exemplar is not used.
CounterTotalAction(m, metric_value, label_names, label_values, exemplar, created) ==
    IF IsSome(m.value.value) THEN DuplicateMetric
    ELSE IF FLt(as_f64(metric_value), Zero) \/ IsNaN(as_f64(metric_value))
    THEN InvalidMetric("Counter totals must be non negative")
    ELSE Ok([m EXCEPT !.value.value = Some(metric_value)])

\* Counter `_created`.
CounterCreatedAction(m, metric_value, label_names, label_values, exemplar, created) ==
    IF IsSome(m.value.created) THEN DuplicateMetric
    ELSE Ok([m EXCEPT !.value.created = Some(as_f64(metric_value))])

\* Mutant: the first line of a sample succeeds without storing its value.
ScalarActionStoresNothing(m, metric_value, label_names, label_values, exemplar, created) ==
    IF IsSome(m.value.v) THEN DuplicateMetric ELSE [tag |-> "Ok", v |-> m]

\* Mutant: the value replaces the one the sample has.
ScalarActionOverwrites(m, metric_value, label_names, label_values, exemplar, created) ==
    [tag |-> "Ok", v |-> [m EXCEPT !.value.v = Some(metric_value)]]

\* Gauge and Unknown.
ScalarAction(m, metric_value, label_names, label_values, exemplar, created) ==
    IF IsSome(m.value.v) THEN DuplicateMetric
    ELSE Ok([m EXCEPT !.value.v = Some(metric_value)])

\* StateSet.  f64::EPSILON is below the half units of the model, so
\* (v - 1).abs() > EPSILON is v # 1; it is false for NaN.
StateSetAction(m, metric_value, label_names, label_values, exemplar, created) ==
    LET v == as_f64(metric_value)
    IN  IF IsSome(m.value.v) THEN DuplicateMetric
        ELSE IF Len(m.label_values) = 0 THEN InvalidMetric("Stateset must have labels")
        ELSE IF ~FEq(v, Zero) /\ ~IsNaN(v) /\ ~FEq(v, One)
        THEN InvalidMetric("Stateset value must be 0 or 1")
        ELSE Ok([m EXCEPT !.value.v = Some(metric_value)])

\* Mutant: a second line for a labelset is not taken for a duplicate.
InfoActionNoDuplicateTest(m, metric_value, label_names, label_values, exemplar, created) ==
    LET i == as_i64(metric_value)
    IN  IF IsNone(i) THEN InvalidMetric("Info values must be integers")
        ELSE IF Unwrap(i) # 1 THEN InvalidMetric("Info values must be 1")
        ELSE [tag |-> "Ok", v |-> m]

\* Info.  `value as u64` of a negative i64 wraps and is not 1.
InfoAction(m, metric_value, label_names, label_values, exemplar, created) ==
    LET i == as_i64(metric_value)
    IN  IF IsNone(i) THEN InvalidMetric("Info values must be integers")
        ELSE IF Unwrap(i) # 1 THEN InvalidMetric("Info values must be 1")
        ELSE IF ~created THEN DuplicateMetric
        ELSE Ok(m)

\* Summary `_count`.
SummaryCountAction(m, metric_value, label_names, label_values, exemplar, created) ==
    LET i == as_i64(metric_value)
    IN  IF IsNone(i) THEN InvalidMetric("Summary counts must be integers")
        ELSE IF Unwrap(i) < 0 THEN InvalidMetric("Summary counts must be positive")
        ELSE IF IsSome(m.value.count) THEN DuplicateMetric
        ELSE Ok([m EXCEPT !.value.count = Some(Unwrap(i))])

\* Summary `_sum`.
SummarySumAction(m, metric_value, label_names, label_values, exemplar, created) ==
    IF FLt(as_f64(metric_value), Zero) \/ IsNaN(as_f64(metric_value))
    THEN InvalidMetric("Summary sums must be non negative")
    ELSE IF IsSome(m.value.sum) THEN DuplicateMetric
    ELSE Ok([m EXCEPT !.value.sum = Some(metric_value)])

\* Mutant: the quantile is appended whatever its bound and value.
QuantileActionUnchecked(m, metric_value, label_names, label_values, exemplar, created) ==
    LET bound == ParseF64(label_values[Position(label_names, Str("quantile"))])
    IN  IF IsNone(bound) THEN InvalidMetric("Summary bounds must be numbers")
        ELSE [tag |-> "Ok",
              v |-> [m EXCEPT !.value.quantiles =
                        Append(@, [quantile |-> Unwrap(bound), value |-> metric_value])]]

\* Summary quantile line.
QuantileAction(m, metric_value, label_names, label_values, exemplar, created) ==
    LET v == as_f64(metric_value)
        bound == ParseF64(label_values[Position(label_names, Str("quantile"))])
    IN  IF ~IsNaN(v) /\ FLt(v, Zero) THEN InvalidMetric("Summary quantiles can't be negative")
        ELSE IF IsNone(bound) THEN InvalidMetric("Summary bounds must be numbers")
        ELSE IF ~(FLe(Zero, Unwrap(bound)) /\ FLe(Unwrap(bound), One)) \/ IsNaN(Unwrap(bound))
        THEN InvalidMetric("Summary bounds must be between 0 and 1")
        ELSE Ok([m EXCEPT !.value.quantiles =
                    Append(@, [quantile |-> Unwrap(bound), value |-> metric_value])])

RunAction(action, m, metric_value, label_names, label_values, exemplar, created) ==
    CASE action = "bucket" ->
            BucketAction(m, metric_value, label_names, label_values, exemplar, created)
      [] action = "hcount" ->
            HistCountAction(m, metric_value, label_names, label_values, exemplar, created)
      [] action = "hcreated" ->
            HistCreatedAction(m, metric_value, label_names, label_values, exemplar, created)
      [] action = "hsum" ->
            HistSumAction(m, metric_value, label_names, label_values, exemplar, created)
      [] action = "total" ->
            CounterTotalAction(m, metric_value, label_names, label_values, exemplar, created)
      [] action = "ccreated" ->
            CounterCreatedAction(m, metric_value, label_names, label_values, exemplar, created)
      [] action = "scalar" ->
            ScalarAction(m, metric_value, label_names, label_values, exemplar, created)
      [] action = "stateset" ->
            StateSetAction(m, metric_value, label_names, label_values, exemplar, created)
      [] action = "info" ->
            InfoAction(m, metric_value, label_names, label_values, exemplar, created)
      [] action = "scount" ->
            SummaryCountAction(m, metric_value, label_names, label_values, exemplar, created)
      [] action = "ssum" ->
            SummarySumAction(m, metric_value, label_names, label_values, exemplar, created)
      [] action = "quantile" ->
            QuantileAction(m, metric_value, label_names, label_values, exemplar, created)

(***************************************************************************)
(* process_new_metric.                                                     *)
(***************************************************************************)
OkUnit == Ok(<<>>)

\* The first row of the type whose suffix ends the sample name; 0 when no
\* row matches.
SelectRow(type, metric_name) ==
    LET rows == Handlers(type)
        hits == {i \in 1..Len(rows) : EndsWith(metric_name, rows[i].suffix)}
    IN  IF hits = {} THEN 0 ELSE CHOOSE i \in hits : \A j \in hits : i <= j

\* Mutant: the label's name is removed and its value is left in place.
RECURSIVE StripMandatoryNamesOnly(_, _, _, _)
StripMandatoryNamesOnly(mandatory, label_names, actual_names, actual_values) ==
    IF Len(mandatory) = 0
    THEN [tag |-> "Ok", v |-> [names |-> actual_names, values |-> actual_values]]
    ELSE IF ~Contains(label_names, Head(mandatory))
    THEN InvalidMetric("Missing mandatory label for metric")
    ELSE StripMandatoryNamesOnly(Tail(mandatory), label_names,
                                 Remove(actual_names, Position(actual_names, Head(mandatory))),
                                 actual_values)

\* The mandatory labels of the row are taken out of the names and values of
\* the line: the effective labelset.  A missing one is an error.
RECURSIVE StripMandatory(_, _, _, _)
StripMandatory(mandatory, label_names, actual_names, actual_values) ==
    IF Len(mandatory) = 0
    THEN Ok([names |-> actual_names, values |-> actual_values])
    ELSE IF ~Contains(label_names, Head(mandatory))
    THEN InvalidMetric("Missing mandatory label for metric")
    ELSE LET index == Position(actual_names, Head(mandatory))
         IN  StripMandatory(Tail(mandatory), label_names,
                            Remove(actual_names, index), Remove(actual_values, index))

\* Mutant: no labelset is ever taken for a reopened one.
NeverInterwoven(fam, actual_label_values) == FALSE

\* A labelset other than the current one that was seen before.
Interwoven(fam, actual_label_values) ==
    /\ IsSome(fam.current_label_set)
    /\ Unwrap(fam.current_label_set) # actual_label_values
    /\ Contains(fam.seen_label_sets, actual_label_values)

\* Mutant: the timestamp rules are applied to the single-line types only.
TimestampMatchSingleLineOnly(metric_timestamp, timestamp, type) ==
    CASE can_have_multiple_lines(type) -> "run"
      [] IsSome(metric_timestamp) /\ IsSome(timestamp)
            /\ Unwrap(timestamp) < Unwrap(metric_timestamp) -> "backwards"
      [] IsSome(metric_timestamp) # IsSome(timestamp) -> "missing"
      [] IsSome(metric_timestamp) /\ IsSome(timestamp) -> "drop"
      [] OTHER -> "run"

\* Mutant: a line that is not older than the sample is dropped for every type.
TimestampMatchDropAll(metric_timestamp, timestamp, type) ==
    CASE IsSome(metric_timestamp) /\ IsSome(timestamp)
            /\ Unwrap(timestamp) < Unwrap(metric_timestamp) -> "backwards"
      [] IsSome(metric_timestamp) # IsSome(timestamp) -> "missing"
      [] IsSome(metric_timestamp) /\ IsSome(timestamp) -> "drop"
      [] OTHER -> "run"

\* The match on (existing timestamp, new timestamp): "backwards", "missing",
\* "drop" (return Ok without running the action) or "run".
TimestampMatch(metric_timestamp, timestamp, type) ==
    CASE IsSome(metric_timestamp) /\ IsSome(timestamp)
            /\ Unwrap(timestamp) < Unwrap(metric_timestamp) -> "backwards"
      [] IsSome(metric_timestamp) # IsSome(timestamp) -> "missing"
      [] IsSome(metric_timestamp) /\ IsSome(timestamp)
            /\ Unwrap(timestamp) >= Unwrap(metric_timestamp)
            /\ ~can_have_multiple_lines(type) -> "drop"
      [] OTHER -> "run"

\* Mutant: the name is compared when it is bound and never bound.
BindNameNeverBinds(fam, metric_name, suffix) ==
    IF IsSome(fam.name) /\ Unwrap(fam.name) # TrimEndMatches(metric_name, suffix)
    THEN InvalidMetric("Invalid Name in metric family")
    ELSE [tag |-> "Ok", v |-> fam]

\* The name bound by the sample: the name without the row's suffix must be
\* the family's name when that is bound, and is bound otherwise.
BindName(fam, metric_name, suffix) ==
    LET base == TrimEndMatches(metric_name, suffix)
    IN  IF IsSome(fam.name) /\ Unwrap(fam.name) # base
        THEN InvalidMetric("Invalid Name in metric family")
        ELSE IF IsNone(fam.name) THEN Ok([fam EXCEPT !.name = Some(base)])
        ELSE Ok(fam)

\* What process_new_metric did: its result, the family as it left it, and
\* the path it took: "none" (it returned before the lookup), "rejected" (a
\* timestamp rule failed on the sample found), "dropped" (it returned Ok
\* without running the action), "ran" (the action ran on the sample found)
\* or "created" (the action ran on a new sample).
Outcome(res, fam, path) == [res |-> res, fam |-> fam, path |-> path]

\* Mutant: a line that runs its action on a sample leaves its timestamp on it.
LookupAndRunUpdatesTimestamp(fam, type, row, metric_value, label_names, label_values, actual_values, timestamp, exemplar) ==
    LET found == get_metric_by_labelset(fam, actual_values)
    IN  IF found # 0
        THEN LET m == fam.metrics[found]
                 t == TimestampMatch(m.timestamp, timestamp, type)
             IN  CASE t = "backwards" ->
                        Outcome(InvalidMetric("Timestamps went backwards in family"), fam, "rejected")
                   [] t = "missing" ->
                        Outcome(InvalidMetric("Missing timestamp in family"), fam, "rejected")
                   [] t = "drop" -> Outcome(OkUnit, fam, "dropped")
                   [] OTHER ->
                        LET r == RunAction(row.action, m, metric_value, label_names,
                                           label_values, exemplar, FALSE)
                        IN  IF IsErr(r) THEN Outcome(r, fam, "ran")
                            ELSE Outcome(OkUnit, [fam EXCEPT !.metrics[found] =
                                                        [r.v EXCEPT !.timestamp = timestamp]], "ran")
        ELSE LET new_metric == get_type_value(UnwrapOrDefault(fam.family_type))
                 fam2 == add_metric(fam, MetricMarshalNew(actual_values, timestamp, new_metric))
                 at == get_metric_by_labelset(fam2, actual_values)
                 r == RunAction(row.action, fam2.metrics[at], metric_value, label_names,
                                label_values, exemplar, TRUE)
             IN  IF IsErr(r) THEN Outcome(r, fam2, "created")
                 ELSE Outcome(OkUnit, [fam2 EXCEPT !.metrics[at] = r.v], "created")

\* Mutant: no sample is looked up; every line gets a new sample.
LookupAndRunAlwaysNew(fam, type, row, metric_value, label_names, label_values, actual_values, timestamp, exemplar) ==
    LET new_metric == get_type_value(UnwrapOrDefault(fam.family_type))
        fam2 == add_metric(fam, MetricMarshalNew(actual_values, timestamp, new_metric))
        at == Len(fam2.metrics)
        r == RunAction(row.action, fam2.metrics[at], metric_value, label_names,
                       label_values, exemplar, TRUE)
    IN  IF IsErr(r) THEN [res |-> r, fam |-> fam2, path |-> "created"]
        ELSE [res |-> [tag |-> "Ok", v |-> <<>>],
              fam |-> [fam2 EXCEPT !.metrics[at] = r.v], path |-> "created"]

\* From the lookup of the sample on: the timestamp rules for a sample that
\* exists, the creation of one that does not, and the row's action.
LookupAndRun(fam, type, row, metric_value, label_names, label_values, actual_values, timestamp, exemplar) ==
    LET found == get_metric_by_labelset(fam, actual_values)
    IN  IF found # 0
        THEN LET m == fam.metrics[found]
                 t == TimestampMatch(m.timestamp, timestamp, type)
             IN  CASE t = "backwards" ->
                        Outcome(InvalidMetric("Timestamps went backwards in family"), fam, "rejected")
                   [] t = "missing" ->
                        Outcome(InvalidMetric("Missing timestamp in family"), fam, "rejected")
                   [] t = "drop" -> Outcome(OkUnit, fam, "dropped")
                   [] OTHER ->
                        LET r == RunAction(row.action, m, metric_value, label_names,
                                           label_values, exemplar, FALSE)
                        IN  IF IsErr(r) THEN Outcome(r, fam, "ran")
                            ELSE Outcome(OkUnit, [fam EXCEPT !.metrics[found] = r.v], "ran")
        ELSE LET new_metric == get_type_value(UnwrapOrDefault(fam.family_type))
                 fam2 == add_metric(fam, MetricMarshalNew(actual_values, timestamp, new_metric))
                 at == get_metric_by_labelset(fam2, actual_values)
                 r == RunAction(row.action, fam2.metrics[at], metric_value, label_names,
                                label_values, exemplar, TRUE)
             IN  IF IsErr(r) THEN Outcome(r, fam2, "created")
                 ELSE Outcome(OkUnit, [fam2 EXCEPT !.metrics[at] = r.v], "created")

\* Mutant: the label names of the line are neither bound nor compared.
ProcessNewMetricNamesUnchecked(fam, metric_name, metric_value, label_names, label_values, timestamp, exemplar) ==
    LET metric_type == UnwrapOrDefault(fam.family_type)
        at == SelectRow(metric_type, metric_name)
        row == Handlers(metric_type)[at]
        eff == StripMandatory(row.mandatory, label_names, label_names, label_values)
        fam1 == [fam EXCEPT !.current_label_set = Some(eff.v.values),
                            !.seen_label_sets = Append(@, eff.v.values)]
        named == [tag |-> "Ok", v |-> fam1]
        bound == BindName(named.v, metric_name, row.suffix)
    IN  IF ~can_have_exemplar(metric_type, metric_name) /\ IsSome(exemplar)
        THEN Outcome(InvalidMetric("Metric Type is not allowed exemplars"), fam, "none")
        ELSE IF at = 0
        THEN Outcome(InvalidMetric("Found weird metric name for type"), fam, "none")
        ELSE IF IsErr(eff) THEN Outcome(eff, fam, "none")
        ELSE IF Interwoven(fam, eff.v.values)
        THEN Outcome(InvalidMetric("Interwoven labelsets"), fam, "none")
        ELSE IF IsErr(named) THEN Outcome(named, fam1, "none")
        ELSE IF IsErr(bound) THEN Outcome(bound, named.v, "none")
        ELSE LookupAndRun(bound.v, metric_type, row, metric_value, label_names,
                          label_values, eff.v.values, timestamp, exemplar)

\* Mutant: a line without a mandatory label of its row is skipped.
ProcessNewMetricSkipsUnlabelled(fam, metric_name, metric_value, label_names, label_values, timestamp, exemplar) ==
    LET metric_type == UnwrapOrDefault(fam.family_type)
        at == SelectRow(metric_type, metric_name)
        row == Handlers(metric_type)[at]
        eff == StripMandatory(row.mandatory, label_names, label_names, label_values)
        fam1 == [fam EXCEPT !.current_label_set = Some(eff.v.values),
                            !.seen_label_sets = Append(@, eff.v.values)]
        named == try_set_label_names(fam1, metric_name,
                                     LabelNamesNew(metric_name, metric_type, eff.v.names))
        bound == BindName(named.v, metric_name, row.suffix)
    IN  IF ~can_have_exemplar(metric_type, metric_name) /\ IsSome(exemplar)
        THEN Outcome(InvalidMetric("Metric Type is not allowed exemplars"), fam, "none")
        ELSE IF at = 0
        THEN Outcome(InvalidMetric("Found weird metric name for type"), fam, "none")
        ELSE IF IsErr(eff) THEN Outcome([tag |-> "Ok", v |-> <<>>], fam, "none")
        ELSE IF Interwoven(fam, eff.v.values)
        THEN Outcome(InvalidMetric("Interwoven labelsets"), fam, "none")
        ELSE IF IsErr(named) THEN Outcome(named, fam1, "none")
        ELSE IF IsErr(bound) THEN Outcome(bound, named.v, "none")
        ELSE LookupAndRun(bound.v, metric_type, row, metric_value, label_names,
                          label_values, eff.v.values, timestamp, exemplar)

ProcessNewMetric(fam, metric_name, metric_value, label_names, label_values, timestamp, exemplar) ==
    LET metric_type == UnwrapOrDefault(fam.family_type)
        at == SelectRow(metric_type, metric_name)
        row == Handlers(metric_type)[at]
        eff == StripMandatory(row.mandatory, label_names, label_names, label_values)
        fam1 == [fam EXCEPT !.current_label_set = Some(eff.v.values),
                            !.seen_label_sets = Append(@, eff.v.values)]
        named == try_set_label_names(fam1, metric_name,
                                     LabelNamesNew(metric_name, metric_type, eff.v.names))
        bound == BindName(named.v, metric_name, row.suffix)
    IN  IF ~can_have_exemplar(metric_type, metric_name) /\ IsSome(exemplar)
        THEN Outcome(InvalidMetric("Metric Type is not allowed exemplars"), fam, "none")
        ELSE IF at = 0
        THEN Outcome(InvalidMetric("Found weird metric name for type"), fam, "none")
        ELSE IF IsErr(eff) THEN Outcome(eff, fam, "none")
        ELSE IF Interwoven(fam, eff.v.values)
        THEN Outcome(InvalidMetric("Interwoven labelsets"), fam, "none")
        ELSE IF IsErr(named) THEN Outcome(named, fam1, "none")
        ELSE IF IsErr(bound) THEN Outcome(bound, named.v, "none")
        ELSE LookupAndRun(bound.v, metric_type, row, metric_value, label_names,
                          label_values, eff.v.values, timestamp, exemplar)

(***************************************************************************)
(* The validators run when a family block ends, and the conversion to the  *)
(* public MetricFamily.  A failed unwrap or assert is a panic.             *)
(***************************************************************************)
Panic(what) == [tag |-> "Panic", kind |-> "Panic", msg |-> what]
IsPanic(r) == r.tag = "Panic"

\* Mutant: sum and count are not tested for being both there or both absent.
HistogramValidateNoPairTest(h, gauge_histogram) ==
    LET buckets == h.buckets
        has_negative_bucket ==
            \E i \in 1..Len(buckets) : FLt(buckets[i].upper_bound, Zero)
    IN  IF Len(buckets) = 0
        THEN InvalidMetric("Histograms must have at least one bucket")
        ELSE IF ~\E i \in 1..Len(buckets) : FEq(buckets[i].upper_bound, PInf)
        THEN InvalidMetric("Histograms must have a +INF bucket")
        ELSE IF has_negative_bucket /\ IsSome(h.sum) /\ ~gauge_histogram
        THEN InvalidMetric("Histograms cannot have a sum with a negative bucket")
        ELSE IF ~has_negative_bucket /\ IsSome(h.sum) /\ FLt(as_f64(Unwrap(h.sum)), Zero)
        THEN InvalidMetric("Histograms cannot have a negative sum without a negative bucket")
        ELSE IF \E i \in 1..Len(buckets) :
                    FLt(as_f64(buckets[i].count),
                        IF i = 1 THEN NInf ELSE as_f64(buckets[i-1].count))
        THEN InvalidMetric("Histograms must be cumulative")
        ELSE [tag |-> "Ok", v |-> <<>>]

\* Mutant: the rule on a sum with a negative bucket is applied to
\* GaugeHistogram as well.
HistogramValidateGaugeNotExempt(h, gauge_histogram) ==
    LET buckets == h.buckets
        has_negative_bucket ==
            \E i \in 1..Len(buckets) : FLt(buckets[i].upper_bound, Zero)
    IN  IF Len(buckets) = 0
        THEN InvalidMetric("Histograms must have at least one bucket")
        ELSE IF ~\E i \in 1..Len(buckets) : FEq(buckets[i].upper_bound, PInf)
        THEN InvalidMetric("Histograms must have a +INF bucket")
        ELSE IF has_negative_bucket /\ IsSome(h.sum)
        THEN InvalidMetric("Histograms cannot have a sum with a negative bucket")
        ELSE IF ~has_negative_bucket /\ IsSome(h.sum) /\ FLt(as_f64(Unwrap(h.sum)), Zero)
        THEN InvalidMetric("Histograms cannot have a negative sum without a negative bucket")
        ELSE IF IsSome(h.sum) /\ IsNone(h.count)
        THEN InvalidMetric("Count must be present if sum is present")
        ELSE IF IsNone(h.sum) /\ IsSome(h.count)
        THEN InvalidMetric("Sum must be present if count is present")
        ELSE IF \E i \in 1..Len(buckets) :
                    FLt(as_f64(buckets[i].count),
                        IF i = 1 THEN NInf ELSE as_f64(buckets[i-1].count))
        THEN InvalidMetric("Histograms must be cumulative")
        ELSE [tag |-> "Ok", v |-> <<>>]

\* The histogram arm of MetricMarshal::validate.
HistogramValidate(h, gauge_histogram) ==
    LET buckets == h.buckets
        has_negative_bucket ==
            \E i \in 1..Len(buckets) : FLt(buckets[i].upper_bound, Zero)
    IN  IF Len(buckets) = 0
        THEN InvalidMetric("Histograms must have at least one bucket")
        ELSE IF ~\E i \in 1..Len(buckets) : FEq(buckets[i].upper_bound, PInf)
        THEN InvalidMetric("Histograms must have a +INF bucket")
        ELSE IF has_negative_bucket /\ IsSome(h.sum) /\ ~gauge_histogram
        THEN InvalidMetric("Histograms cannot have a sum with a negative bucket")
        ELSE IF ~has_negative_bucket /\ IsSome(h.sum) /\ FLt(as_f64(Unwrap(h.sum)), Zero)
        THEN InvalidMetric("Histograms cannot have a negative sum without a negative bucket")
        ELSE IF IsSome(h.sum) /\ IsNone(h.count)
        THEN InvalidMetric("Count must be present if sum is present")
        ELSE IF IsNone(h.sum) /\ IsSome(h.count)
        THEN InvalidMetric("Sum must be present if count is present")
        ELSE IF \E i \in 1..Len(buckets) :
                    FLt(as_f64(buckets[i].count),
                        IF i = 1 THEN NInf ELSE as_f64(buckets[i-1].count))
        THEN InvalidMetric("Histograms must be cumulative")
        ELSE OkUnit

\* The label test of MetricMarshal::validate: || evaluates its right side,
\* with the unwrap, only when the left side is false.
LabelsDiffer(m, fam) ==
    IF IsNone(fam.label_names) /\ Len(m.label_values) # 0 THEN Ok(TRUE)
    ELSE IF IsNone(fam.label_names) THEN Panic("unwrap of label_names")
    ELSE Ok(Len(Unwrap(fam.label_names).names) # Len(m.label_values))

MetricValidate(m, fam) ==
    LET differ == LabelsDiffer(m, fam)
    IN  IF IsPanic(differ) THEN differ
        ELSE IF differ.v THEN InvalidMetric("Metrics in family have different label sets")
        ELSE IF IsSome(fam.unit) /\ Len(fam.metrics) = 0
        THEN InvalidMetric("Can't have metric with unit and no samples")
        ELSE IF m.value.t \in {"Histogram", "GaugeHistogram"}
        THEN HistogramValidate(m.value.h, m.value.t = "GaugeHistogram")
        ELSE IF m.value.t = "Counter" /\ IsNone(m.value.value)
        THEN InvalidMetric("Counter is missing a _total")
        ELSE OkUnit

\* The StateSet test of MetricFamilyMarshal::validate, as the source has it.
StateSetLabelCheck(fam) ==
    /\ fam.family_type = Some("StateSet")
    /\ IsSome(fam.label_names)
    /\ ~Contains(Unwrap(fam.label_names).names, Unwrap(fam.name))

\* The first error among the samples, in order.
RECURSIVE ValidateMetrics(_, _, _)
ValidateMetrics(fam, metrics, i) ==
    IF i > Len(metrics) THEN OkUnit
    ELSE LET r == MetricValidate(metrics[i], fam)
         IN  IF IsOk(r) THEN ValidateMetrics(fam, metrics, i + 1) ELSE r

FamilyValidate(fam) ==
    IF IsNone(fam.name) THEN InvalidMetric("Metric didn't have a name")
    ELSE IF StateSetLabelCheck(fam)
    THEN InvalidMetric("Stateset must not have a label with the same name as its MetricFamily")
    ELSE ValidateMetrics(fam, fam.metrics, 1)

\* From<MetricValueMarshal> for OpenMetricsValue: the scalars are unwrapped.
ValueUnset(value) == value.t \in {"Unknown", "Gauge", "StateSet"} /\ IsNone(value.v)
ValueInto(value) ==
    IF value.t \in {"Unknown", "Gauge", "StateSet"}
    THEN [t |-> value.t, v |-> Unwrap(value.v)]
    ELSE value

\* From<MetricMarshal> for Sample.
SampleFrom(m) ==
    [label_values |-> m.label_values, timestamp |-> m.timestamp, value |-> ValueInto(m.value)]

\* From<MetricFamilyMarshal> for MetricFamily.
FamilyFrom(fam) ==
    IF IsNone(fam.name) THEN Panic("assert name is some")
    ELSE IF \E i \in 1..Len(fam.metrics) : ValueUnset(fam.metrics[i].value)
    THEN Panic("unwrap of an unset scalar")
    ELSE Ok([family_name |-> Unwrap(fam.name),
             label_names |-> IF IsSome(fam.label_names) THEN Unwrap(fam.label_names).names
                             ELSE <<>>,
             family_type |-> UnwrapOrDefault(fam.family_type),
             help |-> IF IsSome(fam.help) THEN Unwrap(fam.help) ELSE "",
             unit |-> IF IsSome(fam.unit) THEN Unwrap(fam.unit) ELSE "",
             samples |-> [i \in 1..Len(fam.metrics) |-> SampleFrom(fam.metrics[i])]])

(***************************************************************************)
(* parse_labels, parse_sample and parse_metric_descriptor.                 *)
(***************************************************************************)
Label(n, v) == [n |-> n, v |-> v]

\* The byte order of the label names of the model.
LabelRank(n) ==
    CASE n = Str("a") -> 1 [] n = Str("le") -> 2 [] n = Str("quantile") -> 3
      [] n = Str("x") -> 4

\* labels.sort_by_key(|l| l.0), as an insertion sort (the sort is stable).
RECURSIVE InsertLabel(_, _)
InsertLabel(sorted, l) ==
    IF Len(sorted) = 0 THEN <<l>>
    ELSE IF LabelRank(l.n) < LabelRank(Head(sorted).n) THEN <<l>> \o sorted
    ELSE <<Head(sorted)>> \o InsertLabel(Tail(sorted), l)
\* Mutant: the labels are left in the order they were written.
SortLabelsKeepOrder(labels) == labels

RECURSIVE SortLabels(_)
SortLabels(labels) ==
    IF Len(labels) = 0 THEN <<>>
    ELSE InsertLabel(SortLabels(SubSeq(labels, 1, Len(labels) - 1)), labels[Len(labels)])

\* Mutant: a name that occurs twice is not looked for.
ParseLabelsUnchecked(labels) == [tag |-> "Ok", v |-> SortLabels(labels)]

parse_labels(labels) ==
    IF \E i, j \in 1..Len(labels) : i < j /\ labels[i].n = labels[j].n
    THEN InvalidMetric("Found label twice in the same labelset")
    ELSE Ok(SortLabels(labels))

\* A sample line: its name, the labels as written, the value text, the
\* timestamp and the exemplar.
parse_sample(fam, line) ==
    LET labels == parse_labels(line.labels)
        label_names == [i \in 1..Len(labels.v) |-> labels.v[i].n]
        label_values == [i \in 1..Len(labels.v) |-> labels.v[i].v]
        value == ParseValue(line.value)
    IN  IF IsErr(labels) THEN Outcome(labels, fam, "none")
        ELSE IF IsNone(value)
        THEN Outcome(InvalidMetric("Metric Value must be a number"), fam, "none")
        ELSE ProcessNewMetric(fam, line.name, Unwrap(value), label_names, label_values,
                              line.timestamp, line.exemplar)

\* Mutant: the name of a UNIT descriptor is not compared with the family's.
ParseMetricDescriptorUnitUnchecked(fam, d) ==
    CASE d.kw = "kw_help" ->
            LET named == set_or_test_name(fam, d.name)
            IN  IF IsErr(named) THEN named ELSE try_add_help(named.v, d.text)
      [] d.kw = "kw_type" ->
            LET named == set_or_test_name(fam, d.name)
                type == TypeTryFrom(d.text)
            IN  IF IsErr(named) THEN named
                ELSE IF IsErr(type) THEN type
                ELSE try_add_type(named.v, type.v)
      [] d.kw = "kw_unit" ->
            try_add_unit(fam, d.text)

\* A descriptor line: kw_help, kw_type or kw_unit, the metric name and the
\* text that follows it.
parse_metric_descriptor(fam, d) ==
    CASE d.kw = "kw_help" ->
            LET named == set_or_test_name(fam, d.name)
            IN  IF IsErr(named) THEN named ELSE try_add_help(named.v, d.text)
      [] d.kw = "kw_type" ->
            LET named == set_or_test_name(fam, d.name)
                type == TypeTryFrom(d.text)
            IN  IF IsErr(named) THEN named
                ELSE IF IsErr(type) THEN type
                ELSE try_add_type(named.v, type.v)
      [] d.kw = "kw_unit" ->
            IF IsNone(fam.name) \/ d.name # Unwrap(fam.name)
            THEN InvalidMetric("UNIT metric name doesn't match family")
            ELSE try_add_unit(fam, d.text)

\* Mutant: the descriptor is parsed whether or not samples were taken.
DescriptorChildAnywhere(fam, d) == parse_metric_descriptor(fam, d)

\* The metricdescriptor arm of parse_metric_family's loop.
DescriptorChild(fam, d) ==
    IF Len(fam.metrics) = 0 THEN parse_metric_descriptor(fam, d)
    ELSE InvalidMetric("Metric Descriptor after samples")

\* The end of parse_metric_family: validate, then convert.
FinishFamily(fam) ==
    LET valid == FamilyValidate(fam)
    IN  IF IsOk(valid) THEN FamilyFrom(fam) ELSE valid

\* The metricfamily arm of parse_openmetrics, after the family is built.
contains_key(families, name) ==
    \E i \in 1..Len(families) : families[i].family_name = name
\* Mutant: the family is inserted without the test for its name.
InsertFamilyUnchecked(families, f) == [tag |-> "Ok", v |-> Append(families, f)]

InsertFamily(families, f) ==
    IF contains_key(families, f.family_name)
    THEN InvalidMetric("Found a metric family after that family was finalised")
    ELSE Ok(Append(families, f))

\* Mutant: one byte after the token is accepted whatever it is.
EofCheckAnyLastByte(end, len, ends_with_newline) ==
    IF end # len /\ end # len - 1
    THEN InvalidMetric("Found text after the EOF token")
    ELSE OkUnit

\* The kw_eof arm: the token ends at `end` in an input of `len` bytes whose
\* last byte is a newline or not.
EofCheck(end, len, ends_with_newline) ==
    IF end # len /\ ~(end = len - 1 /\ ends_with_newline)
    THEN InvalidMetric("Found text after the EOF token")
    ELSE OkUnit

\* Mutant: the families are returned whether or not kw_eof was met.
FinalResultUnchecked(found, families) == [tag |-> "Ok", v |-> families]

\* After the loop.
FinalResult(found, families) ==
    IF ~found THEN InvalidMetric("Didn't find an EOF token") ELSE Ok(families)

(***************************************************************************)
(* The rule stream: what the grammar can hand to the driver, within the    *)
(* bounds of the model.                                                    *)
(***************************************************************************)
TypeTexts ==
    {"counter", "gauge", "histogram", "gaugehistogram", "stateset", "summary", "info",
     "unknown", "untyped"}
Descriptors ==
    [kw : {"kw_type"}, name : {Str("a")}, text : TypeTexts]
        \cup [kw : {"kw_type"}, name : {Str("b")}, text : {"gauge"}]
        \cup [kw : {"kw_help"}, name : {Str("a")}, text : {"help"}]
        \cup [kw : {"kw_unit"}, name : {Str("a")}, text : {"seconds"}]

Timestamps == {None, Some(1), Some(2)}
\* Lines of two labelsets over the same label name, with every timestamp.
PlainLines ==
    [name : {Str("a"), <<"a", "_total">>, <<"a", "_count">>, <<"a", "_info">>, Str("b")},
     labels : {<<Label(Str("x"), "u")>>, <<Label(Str("x"), "v")>>},
     value : {"1", "2"}, timestamp : Timestamps, exemplar : {None}]
\* Lines with no label, and with a label named like the family.
OtherLabelLines ==
    [name : {Str("a")}, labels : {<<>>, <<Label(Str("a"), "u")>>},
     value : {"1"}, timestamp : {None}, exemplar : {None}]
\* Bucket and quantile lines: the mandatory label is written last.
MandatoryLabelLines ==
    [name : {<<"a", "_bucket">>},
     labels : {<<Label(Str("x"), "u"), Label(Str("le"), "+Inf")>>},
     value : {"1"}, timestamp : Timestamps, exemplar : {None}]
        \cup [name : {Str("a")},
              labels : {<<Label(Str("x"), "u"), Label(Str("quantile"), "0.5")>>},
              value : {"1"}, timestamp : {None}, exemplar : {None}]
ExemplarLines ==
    [name : {Str("a"), <<"a", "_total">>}, labels : {<<Label(Str("x"), "u")>>},
     value : {"1"}, timestamp : {None}, exemplar : {Some("exemplar")}]
\* The lines of a run over one family block.
BlockLines == PlainLines \cup OtherLabelLines \cup MandatoryLabelLines \cup ExemplarLines
\* The lines of a run over several family blocks.
Lines ==
    [name : {Str("a"), <<"a", "_total">>, Str("b")},
     labels : {<<>>, <<Label(Str("x"), "u")>>},
     value : {"1"}, timestamp : {None}, exemplar : {None}]

\* What may follow the EOF token in the input: nothing, a newline, or more;
\* and the byte offsets at which the token may end.
Trailings == {<<>>, <<"\n">>, <<"x">>, <<"\n", "\n">>, <<"x", "\n">>}
EofEnds == {5, 6}

(***************************************************************************)
(* The state machine: one step per rule of the stream.  hist records what  *)
(* the run has met: lines, the sample lines accepted; fams, the blocks     *)
(* begun; names, the names of the families built, in order; eofs and       *)
(* trailing, the kw_eof rules met and what followed the last one; ended,   *)
(* the stream was exhausted; raised, the error a step raised; block, the   *)
(* descriptors taken in the block, its accepted children in order (for a   *)
(* sample, its effective labelset), the path of its last sample and that   *)
(* sample line as it was written.                                          *)
(***************************************************************************)
Running == None
NoBlock == [descs |-> 0, trace |-> <<>>, last |-> "none", line |-> None]
NoHist ==
    [lines |-> 0, fams |-> 0, names |-> <<>>, eofs |-> 0, trailing |-> None,
     ended |-> FALSE, raised |-> None, block |-> NoBlock]
Init ==
    /\ pc = "loop"
    /\ exposition = <<>>
    /\ found_eof = FALSE
    /\ family = EmptyFamily
    /\ ret = Running
    /\ hist = NoHist

\* Mutant: on an error the families built so far are returned.
PropagatePartial(r, families) == [tag |-> "Ok", v |-> families]

\* `?`: an error of a callee is what parse_openmetrics returns.
Propagate(r, families) == r

\* parse_openmetrics returns; the other variables stay as they were then.
Return(r) ==
    /\ pc' = "done"
    /\ ret' = Some(r)
    /\ UNCHANGED <<exposition, family, found_eof>>

Raise(r) ==
    /\ Return(Propagate(r, exposition))
    /\ hist' = [hist EXCEPT !.raised = Some(r)]

\* The effective labelset of a line for a family: the sorted labels less the
\* mandatory labels of the row that takes the line.
EffectiveLabelset(fam, line) ==
    LET labels == SortLabels(line.labels)
        names == [i \in 1..Len(labels) |-> labels[i].n]
        type == UnwrapOrDefault(fam.family_type)
        row == Handlers(type)[SelectRow(type, line.name)]
    IN  IF SelectRow(type, line.name) = 0 THEN InvalidMetric("no row")
        ELSE StripMandatory(row.mandatory, names, names,
                            [i \in 1..Len(labels) |-> labels[i].v])

\* The loop of parse_openmetrics meets a metricfamily rule.
StartFamily ==
    /\ pc = "loop"
    /\ ~found_eof
    /\ hist.fams < MaxFamilies
    /\ pc' = "family"
    /\ family' = EmptyFamily
    /\ hist' = [hist EXCEPT !.fams = @ + 1, !.block = NoBlock]
    /\ UNCHANGED <<exposition, found_eof, ret>>

\* The loop of parse_metric_family meets a metricdescriptor child.
Descriptor(d) ==
    /\ pc = "family"
    /\ hist.block.descs < MaxDesc
    /\ LET r == DescriptorChild(family, d)
       IN  IF IsErr(r)
           THEN Raise(r)
           ELSE /\ family' = r.v
                /\ hist' = [hist EXCEPT
                                !.block.descs = @ + 1,
                                !.block.trace =
                                    Append(@, [kind |-> "descriptor", names |-> <<>>,
                                               values |-> <<>>])]
                /\ UNCHANGED <<pc, exposition, found_eof, ret>>

\* The loop of parse_metric_family meets a sample child.
Sample(line) ==
    /\ pc = "family"
    /\ hist.lines < MaxLines
    /\ LET r == parse_sample(family, line)
           eff == EffectiveLabelset(family, line).v
       IN  IF IsErr(r.res)
           THEN Raise(r.res)
           ELSE /\ family' = r.fam
                /\ hist' = [hist EXCEPT
                                !.lines = @ + 1,
                                !.block.trace =
                                    Append(@, [kind |-> "sample", names |-> eff.names,
                                               values |-> eff.values]),
                                !.block.last = r.path,
                                !.block.line = Some(line)]
                /\ UNCHANGED <<pc, exposition, found_eof, ret>>

\* The children of the block are exhausted: parse_metric_family finishes
\* and the driver inserts the family.
EndFamily ==
    /\ pc = "family"
    /\ LET f == FinishFamily(family)
           ins == InsertFamily(exposition, f.v)
       IN  IF ~IsOk(f)
           THEN Raise(f)
           ELSE IF IsErr(ins)
           THEN /\ Return(Propagate(ins, exposition))
                /\ hist' = [hist EXCEPT !.raised = Some(ins),
                                        !.names = Append(@, f.v.family_name)]
           ELSE /\ exposition' = ins.v
                /\ pc' = "loop"
                /\ family' = EmptyFamily
                /\ hist' = [hist EXCEPT !.names = Append(@, f.v.family_name),
                                        !.block = NoBlock]
                /\ UNCHANGED <<found_eof, ret>>

\* The loop of parse_openmetrics meets the kw_eof rule, which ends at byte
\* `end` and is followed by `trailing`.  When the check passes at most one
\* newline follows the token, so no rule follows it.
Eof(end, trailing) ==
    /\ pc = "loop"
    /\ ~found_eof
    /\ LET len == end + Len(trailing)
           ends_with_newline == Len(trailing) > 0 /\ trailing[Len(trailing)] = "\n"
           r == EofCheck(end, len, ends_with_newline)
       IN  IF IsErr(r)
           THEN /\ Return(Propagate(r, exposition))
                /\ hist' = [hist EXCEPT !.raised = Some(r), !.eofs = @ + 1,
                                        !.trailing = Some(trailing)]
           ELSE /\ found_eof' = TRUE
                /\ hist' = [hist EXCEPT !.eofs = @ + 1, !.trailing = Some(trailing)]
                /\ UNCHANGED <<pc, exposition, family, ret>>

\* The rule stream is exhausted.
EndOfStream ==
    /\ pc = "loop"
    /\ Return(FinalResult(found_eof, exposition))
    /\ hist' = [hist EXCEPT !.ended = TRUE]

Next ==
    \/ StartFamily
    \/ \E d \in Descriptors : Descriptor(d)
    \/ \E line \in Lines : Sample(line)
    \/ EndFamily
    \/ \E end \in EofEnds, trailing \in Trailings : Eof(end, trailing)
    \/ EndOfStream

\* An exposition of any number of family blocks, of few kinds of lines.
Spec == Init /\ [][Next]_vars

\* An exposition of one family block, of many kinds of lines: the run
\* starts at the first child of the block.
InitBlock ==
    /\ pc = "family"
    /\ exposition = <<>>
    /\ found_eof = FALSE
    /\ family = EmptyFamily
    /\ ret = Running
    /\ hist = [NoHist EXCEPT !.fams = 1]

NextBlock ==
    \/ \E d \in Descriptors : Descriptor(d)
    \/ \E line \in BlockLines : Sample(line)
    \/ EndFamily
    \/ \E end \in EofEnds, trailing \in Trailings : Eof(end, trailing)
    \/ EndOfStream

SpecBlock == InitBlock /\ [][NextBlock]_vars

\* The lines of a run over one family block that exercises the handlers:
\* bucket lines of three bounds, counter and stateset values, info lines
\* with timestamps, names with other suffixes and with a repeated suffix,
\* exemplars, labels written in both orders, and quantile lines.
HistogramLines ==
    [name : {<<"a", "_bucket">>},
     labels : {<<Label(Str("le"), "1")>>, <<Label(Str("le"), "+Inf")>>},
     value : {"1", "2"}, timestamp : {None}, exemplar : {None}]
        \cup [name : {<<"a", "_bucket">>}, labels : {<<Label(Str("le"), "2")>>},
              value : {"NaN"}, timestamp : {None}, exemplar : {None}]
CounterLines ==
    [name : {<<"a", "_total">>}, labels : {<<>>}, value : {"-1", "0", "1", "NaN"},
     timestamp : {None}, exemplar : {None}]
SuffixLines ==
    [name : {Str("a"), <<"a", "_created">>, <<"a", "_count">>, <<"a", "_sum">>,
             <<"a", "_gcount">>, <<"a", "_gsum">>, <<"a", "_total", "_total">>},
     labels : {<<>>}, value : {"1"}, timestamp : {None}, exemplar : {None}]
StateSetLines ==
    [name : {Str("a")}, labels : {<<Label(Str("a"), "u")>>},
     value : {"0", "1", "2", "0.5", "NaN"}, timestamp : {None}, exemplar : {None}]
InfoLines ==
    [name : {<<"a", "_info">>}, labels : {<<Label(Str("x"), "u")>>},
     value : {"1", "2"}, timestamp : Timestamps, exemplar : {None}]
        \cup [name : {<<"a", "_info">>}, labels : {<<Label(Str("x"), "u")>>},
              value : {"0.5"}, timestamp : {None}, exemplar : {None}]
WithExemplarLines ==
    [name : {Str("a"), <<"a", "_total">>, <<"a", "_count">>}, labels : {<<>>},
     value : {"1"}, timestamp : {None}, exemplar : {Some("exemplar")}]
        \cup [name : {<<"a", "_bucket">>}, labels : {<<Label(Str("le"), "+Inf")>>},
              value : {"1"}, timestamp : {None}, exemplar : {Some("exemplar")}]
PermutedLines ==
    [name : {Str("a")},
     labels : {<<Label(Str("x"), "u"), Label(Str("a"), "u")>>,
               <<Label(Str("a"), "u"), Label(Str("x"), "u")>>,
               <<Label(Str("x"), "u"), Label(Str("quantile"), "0.5")>>,
               <<Label(Str("quantile"), "0.5"), Label(Str("x"), "u")>>,
               <<Label(Str("x"), "u"), Label(Str("x"), "u")>>},
     value : {"1"}, timestamp : {None}, exemplar : {None}]
        \cup [name : {<<"a", "_bucket">>},
              labels : {<<Label(Str("x"), "u"), Label(Str("le"), "+Inf")>>,
                        <<Label(Str("le"), "+Inf"), Label(Str("x"), "u")>>},
              value : {"1"}, timestamp : {None}, exemplar : {None}]
QuantileLines ==
    [name : {Str("a")},
     labels : {<<Label(Str("quantile"), q)>> : q \in {"0.5", "1", "2", "-1", "NaN"}},
     value : {"1"}, timestamp : {None}, exemplar : {None}]
        \cup [name : {Str("a")}, labels : {<<Label(Str("quantile"), "0.5")>>},
              value : {"-1", "NaN"}, timestamp : {None}, exemplar : {None}]
ValueLines ==
    HistogramLines \cup CounterLines \cup SuffixLines \cup StateSetLines \cup InfoLines
        \cup WithExemplarLines \cup PermutedLines \cup QuantileLines

NextValues ==
    \/ \E d \in Descriptors : Descriptor(d)
    \/ \E line \in ValueLines : Sample(line)
    \/ EndFamily
    \/ \E end \in EofEnds, trailing \in Trailings : Eof(end, trailing)
    \/ EndOfStream

SpecValues == InitBlock /\ [][NextValues]_vars

\* The lines of a run over one family block that assembles samples from
\* several lines: the scalar parts of the multi-line types for one labelset
\* with two values and every timestamp, bucket lines of a negative and an
\* infinite bound and one without `le`, quantile lines with and without
\* `quantile`, a negative sum, lines of a second labelset, and exemplars.
ScalarPartLines ==
    [name : {<<"a", "_total">>, <<"a", "_created">>, <<"a", "_count">>, <<"a", "_sum">>,
             <<"a", "_gcount">>, <<"a", "_gsum">>},
     labels : {<<Label(Str("x"), "u")>>}, value : {"1", "2"}, timestamp : Timestamps,
     exemplar : {None}]
BucketPartLines ==
    [name : {<<"a", "_bucket">>},
     labels : {<<Label(Str("x"), "u"), Label(Str("le"), "-1")>>,
               <<Label(Str("x"), "u"), Label(Str("le"), "+Inf")>>,
               <<Label(Str("x"), "u")>>},
     value : {"1"}, timestamp : {None}, exemplar : {None}]
QuantilePartLines ==
    [name : {Str("a")},
     labels : {<<Label(Str("x"), "u"), Label(Str("quantile"), "0.5")>>,
               <<Label(Str("x"), "u")>>},
     value : {"1"}, timestamp : {None}, exemplar : {None}]
NegativeSumLines ==
    [name : {<<"a", "_sum">>, <<"a", "_gsum">>}, labels : {<<Label(Str("x"), "u")>>},
     value : {"-1"}, timestamp : {None}, exemplar : {None}]
SecondLabelsetLines ==
    [name : {<<"a", "_total">>, <<"a", "_count">>}, labels : {<<Label(Str("x"), "v")>>},
     value : {"1"}, timestamp : {None}, exemplar : {None}]
        \cup [name : {<<"a", "_bucket">>},
              labels : {<<Label(Str("x"), "v"), Label(Str("le"), "+Inf")>>},
              value : {"1"}, timestamp : {None}, exemplar : {None}]
ExemplarPartLines ==
    [name : {<<"a", "_total">>}, labels : {<<Label(Str("x"), "u")>>},
     value : {"1"}, timestamp : {None}, exemplar : {Some("exemplar")}]
        \cup [name : {<<"a", "_bucket">>},
              labels : {<<Label(Str("x"), "u"), Label(Str("le"), "+Inf")>>},
              value : {"1"}, timestamp : {None}, exemplar : {Some("exemplar")}]
PartLines ==
    ScalarPartLines \cup BucketPartLines \cup QuantilePartLines \cup NegativeSumLines
        \cup SecondLabelsetLines \cup ExemplarPartLines

NextParts ==
    \/ \E d \in Descriptors : Descriptor(d)
    \/ \E line \in PartLines : Sample(line)
    \/ EndFamily
    \/ \E end \in EofEnds, trailing \in Trailings : Eof(end, trailing)
    \/ EndOfStream

SpecParts == InitBlock /\ [][NextParts]_vars

\* Lines whose label block has a name twice: with equal and with different
\* values, beside another label, and on a bucket line.
DuplicateLabelLines ==
    [name : {Str("a")},
     labels : {<<Label(Str("x"), "u"), Label(Str("x"), "u")>>,
               <<Label(Str("x"), "u"), Label(Str("x"), "v")>>,
               <<Label(Str("x"), "u"), Label(Str("a"), "u"), Label(Str("x"), "v")>>},
     value : {"1"}, timestamp : {None}, exemplar : {None}]
        \cup [name : {<<"a", "_bucket">>},
              labels : {<<Label(Str("le"), "1"), Label(Str("le"), "+Inf")>>},
              value : {"1"}, timestamp : {None}, exemplar : {None}]

(***************************************************************************)
(* The claims.                                                             *)
(***************************************************************************)
Done == pc = "done"
Result == Unwrap(ret)
Failed == Done /\ IsErr(Result)
Succeeded == Done /\ IsOk(Result)
\* The families the caller can see: those of the result, and of the map
\* while the parse runs.
Families == IF Succeeded THEN Result.v ELSE exposition
NamesOf(families) == [i \in 1..Len(families) |-> families[i].family_name]
Distinct(s) == \A i, j \in 1..Len(s) : i < j => s[i] # s[j]
\* The semantic errors: InvalidMetric and its sub-case DuplicateMetric.
SemanticError(r) == IsErr(r) /\ r.kind \in {"InvalidMetric", "DuplicateMetric"}

\* C1: a parse whose rule stream held no kw_eof fails: with a semantic error
\* in every case, and with InvalidMetric "Didn't find an EOF token" when the
\* stream was read to its end; a successful result implies kw_eof was met.
C1_MissingEofFails ==
    Done =>
        /\ hist.eofs = 0 => SemanticError(Result)
        /\ hist.eofs = 0 /\ hist.ended => Result = InvalidMetric("Didn't find an EOF token")
        /\ IsOk(Result) => hist.eofs > 0

C1_Witness ==
    /\ Done
    /\ hist.eofs = 0
    /\ hist.ended
    /\ Len(hist.names) >= 1
    /\ Result = InvalidMetric("Didn't find an EOF token")

\* C2: once kw_eof is met, the parse goes on (and then succeeds) only if
\* nothing or exactly one newline follows the token; anything else after it
\* makes the parse fail with InvalidMetric "Found text after the EOF token".
C2_EofEndsInput ==
    IsSome(hist.trailing) =>
        IF Unwrap(hist.trailing) \in {<<>>, <<"\n">>}
        THEN found_eof /\ (Done => IsOk(Result))
        ELSE Done /\ Result = InvalidMetric("Found text after the EOF token")

C2_Witness ==
    /\ hist.trailing = Some(<<"\n", "\n">>)
    /\ Failed
    /\ Len(exposition) >= 1

\* C3: a block whose family has the name of an earlier block's makes the
\* parse fail; otherwise the map holds one entry for each block built, in
\* order, so the names of a successful result are pairwise distinct.
C3_FamilyNamesDistinct ==
    /\ ~Distinct(hist.names) =>
            /\ Done
            /\ Result = InvalidMetric("Found a metric family after that family was finalised")
    /\ Distinct(hist.names) => NamesOf(exposition) = hist.names
    /\ Succeeded => Distinct(NamesOf(Result.v)) /\ NamesOf(Result.v) = hist.names

C3_Witness ==
    /\ Failed
    /\ hist.names = <<Str("a"), Str("a")>>
    /\ NamesOf(exposition) = <<Str("a")>>

\* C4: once a step raises an error the parse is over and what the caller
\* receives is that error, which carries no family.
C4_ErrorAborts ==
    IsSome(hist.raised) => Done /\ ret = hist.raised /\ IsErr(Result)

C4_Witness ==
    /\ IsSome(hist.raised)
    /\ Failed
    /\ Len(exposition) >= 1
    /\ hist.lines >= 1

\* C5: a StateSet family is rejected by validation when its name is among
\* its label names, and the name test does not reject it otherwise.
C5_StateSetNameLabelRejected ==
    (/\ pc = "family"
     /\ family.family_type = Some("StateSet")
     /\ IsSome(family.name)
     /\ IsSome(family.label_names)) =>
        IF Contains(Unwrap(family.label_names).names, Unwrap(family.name))
        THEN IsErr(FamilyValidate(family))
        ELSE ~StateSetLabelCheck(family)

\* The effective labelsets of the sample lines accepted in the block.
SampleTrace == SelectSeq(hist.block.trace, LAMBDA e : e.kind = "sample")
NoReopen(t) ==
    \A i, j, k \in 1..Len(t) : (i < j /\ j < k /\ t[i] = t[k]) => t[j] = t[i]
TraceEntry(eff) == [kind |-> "sample", names |-> eff.names, values |-> eff.values]
\* C6: the sample lines accepted in a block never return to a labelset
\* after another one; a line whose effective labelset is not the current
\* one and was seen before fails, and a line with the current labelset is
\* never refused as interwoven.
C6_NoInterwovenLabelsets ==
    pc = "family" =>
        /\ NoReopen(SampleTrace)
        /\ \A line \in BlockLines :
            LET eff == EffectiveLabelset(family, line)
                r == parse_sample(family, line)
                t == SampleTrace
            IN  (IsOk(eff) /\ Len(t) > 0) =>
                    /\ (TraceEntry(eff.v) # t[Len(t)] /\ Contains(t, TraceEntry(eff.v)))
                            => IsErr(r.res)
                    /\ TraceEntry(eff.v) = t[Len(t)]
                            => r.res # InvalidMetric("Interwoven labelsets")

C6_Witness ==
    /\ Failed
    /\ Result = InvalidMetric("Interwoven labelsets")
    /\ Len(SampleTrace) = 2
    /\ SampleTrace[1] # SampleTrace[2]

\* C7: in a block no descriptor is taken after a sample: once a sample line
\* was accepted every descriptor fails with "Metric Descriptor after
\* samples", and a descriptor is parsed only while the family has no sample.
C7_NoDescriptorAfterSamples ==
    pc = "family" =>
        LET t == hist.block.trace
        IN  /\ \A i, j \in 1..Len(t) :
                    i < j => ~(t[i].kind = "sample" /\ t[j].kind = "descriptor")
            /\ \A d \in Descriptors :
                    IF Len(SampleTrace) > 0
                    THEN DescriptorChild(family, d)
                            = InvalidMetric("Metric Descriptor after samples")
                    ELSE DescriptorChild(family, d) = parse_metric_descriptor(family, d)

C7_Witness ==
    /\ Failed
    /\ Result = InvalidMetric("Metric Descriptor after samples")
    /\ Len(SampleTrace) > 0

\* The timestamps of a sample and of a later line that the rules refuse.
TimestampsClash(old, new) ==
    \/ IsSome(old) /\ IsSome(new) /\ Unwrap(new) < Unwrap(old)
    \/ IsSome(old) # IsSome(new)
\* C8: for every type, a line whose effective labelset is that of a sample
\* of the family fails when both have timestamps and the line's is the
\* smaller, and when exactly one of the two has a timestamp.
C8_TimestampRules ==
    pc = "family" =>
        \A line \in BlockLines :
            LET eff == EffectiveLabelset(family, line)
            IN  IsOk(eff) =>
                    \A i \in 1..Len(family.metrics) :
                        (/\ family.metrics[i].label_values = eff.v.values
                         /\ TimestampsClash(family.metrics[i].timestamp, line.timestamp))
                            => IsErr(parse_sample(family, line).res)

C8_Witness ==
    /\ Failed
    /\ Result = InvalidMetric("Timestamps went backwards in family")
    /\ family.family_type = Some("Histogram")

\* C9: a line that finds a sample of its labelset, where both have
\* timestamps and the line's is not the smaller, is dropped for Gauge,
\* Unknown, StateSet and Info: the result is Ok and the samples are as they
\* were; for Counter, Histogram, GaugeHistogram and Summary the row's action
\* runs on the sample found.
C9_LaterLineDroppedOrRun ==
    pc = "family" =>
        \A line \in BlockLines :
            LET r == parse_sample(family, line)
                type == UnwrapOrDefault(family.family_type)
                found == get_metric_by_labelset(family,
                                                EffectiveLabelset(family, line).v.values)
                old == family.metrics[found].timestamp
            IN  (/\ r.path \in {"rejected", "dropped", "ran"}
                 /\ IsSome(old) /\ IsSome(line.timestamp)
                 /\ Unwrap(line.timestamp) >= Unwrap(old)) =>
                    IF type \in {"Gauge", "Unknown", "StateSet", "Info"}
                    THEN /\ r.res = OkUnit
                         /\ r.path = "dropped"
                         /\ r.fam.metrics = family.metrics
                    ELSE r.path = "ran"

C9_Witness ==
    /\ pc = "family"
    /\ hist.block.last = "dropped"
    /\ Len(family.metrics) = 1
    /\ Len(SampleTrace) = 2

\* C10: every sample of every family of the result has as many label values
\* as the family has label names, and so has every sample of the family
\* being built.
C10_LabelArity ==
    /\ \A i \in 1..Len(Families) :
            \A j \in 1..Len(Families[i].samples) :
                Len(Families[i].samples[j].label_values) = Len(Families[i].label_names)
    /\ pc = "family" =>
            \A j \in 1..Len(family.metrics) :
                /\ IsSome(family.label_names)
                /\ Len(family.metrics[j].label_values)
                        = Len(Unwrap(family.label_names).names)

C10_Witness ==
    /\ Succeeded
    /\ Len(Result.v) = 1
    /\ Result.v[1].family_type = "Histogram"
    /\ Len(Result.v[1].samples) = 1
    /\ Len(Result.v[1].label_names) = 1

\* The histogram samples among a sequence of samples, and what the spec asks
\* of the buckets of one: no count is less than the count of an earlier bucket.
IsHistogram(value) == value.t \in {"Histogram", "GaugeHistogram"}
NoDecrease(buckets) ==
    \A k, l \in 1..Len(buckets) :
        k < l => ~FLt(as_f64(buckets[l].count), as_f64(buckets[k].count))
BucketsWellFormed(buckets) ==
    /\ Len(buckets) > 0
    /\ \E k \in 1..Len(buckets) : buckets[k].upper_bound = PInf
    /\ NoDecrease(buckets)

\* C11: every Histogram and GaugeHistogram sample of a family that passed
\* validation has at least one bucket, has a bucket of bound +Inf, and has
\* no bucket count below the count of an earlier bucket line; a family
\* with a sample that breaks one of these fails validation.
C11_HistogramBuckets ==
    /\ \A i \in 1..Len(Families) :
            \A j \in 1..Len(Families[i].samples) :
                IsHistogram(Families[i].samples[j].value)
                    => BucketsWellFormed(Families[i].samples[j].value.h.buckets)
    /\ pc = "family" =>
            ((\E j \in 1..Len(family.metrics) :
                    /\ IsHistogram(family.metrics[j].value)
                    /\ ~BucketsWellFormed(family.metrics[j].value.h.buckets))
                => IsErr(FinishFamily(family)))

\* The type of the family being built, and the number a value text stands for.
FamilyType == UnwrapOrDefault(family.family_type)
NumberOf(line) == as_f64(Unwrap(ParseValue(line.value)))
NegativeOrNaN(x) == FLt(x, Zero) \/ IsNaN(x)

\* C12: every Counter sample of a family that passed validation has a value,
\* which is not NaN and is at least 0; in a Counter family a _total line
\* whose value is negative or NaN fails, and a family with a counter sample
\* that has no value (it got _created lines only) fails validation.
C12_CounterValues ==
    /\ \A i \in 1..Len(Families) :
            \A j \in 1..Len(Families[i].samples) :
                LET value == Families[i].samples[j].value
                IN  value.t = "Counter" =>
                        /\ IsSome(value.value)
                        /\ ~NegativeOrNaN(as_f64(Unwrap(value.value)))
    /\ (pc = "family" /\ FamilyType = "Counter") =>
            /\ \A line \in ValueLines :
                    (EndsWith(line.name, "_total") /\ NegativeOrNaN(NumberOf(line)))
                        => IsErr(parse_sample(family, line).res)
            /\ (\E j \in 1..Len(family.metrics) : IsNone(family.metrics[j].value.value))
                    => IsErr(FinishFamily(family))

C12_Witness ==
    /\ Succeeded
    /\ Len(Result.v) = 1
    /\ Result.v[1].family_type = "Counter"
    /\ Len(Result.v[1].samples) = 1
    /\ Result.v[1].samples[1].value.value = Some(MInt(0))
    /\ IsSome(Result.v[1].samples[1].value.created)

\* C13: every StateSet sample of a family that passed validation has the
\* value 0 or 1 and at least one label value.
C13_StateSetValues ==
    \A i \in 1..Len(Families) :
        \A j \in 1..Len(Families[i].samples) :
            LET sample == Families[i].samples[j]
            IN  sample.value.t = "StateSet" =>
                    /\ FEq(as_f64(sample.value.v), Zero) \/ FEq(as_f64(sample.value.v), One)
                    /\ Len(sample.label_values) > 0

\* An _info line for the family being built: whether its value is the
\* integer 1, the sample of its labelset (0 when there is none), and whether
\* the timestamp rule drops it.
IsIntegerOne(line) == as_i64(Unwrap(ParseValue(line.value))) = Some(1)
SampleHit(line) == get_metric_by_labelset(family, EffectiveLabelset(family, line).v.values)
DroppedByTimestamp(line) ==
    /\ SampleHit(line) # 0
    /\ IsSome(family.metrics[SampleHit(line)].timestamp)
    /\ IsSome(line.timestamp)
    /\ Unwrap(line.timestamp) >= Unwrap(family.metrics[SampleHit(line)].timestamp)

\* C14 as stated: in an Info family every _info line whose value is not the
\* integer 1, and every line for a labelset that already has a sample, fails.
C14_InfoOncePerLabelset ==
    (pc = "family" /\ FamilyType = "Info") =>
        \A line \in ValueLines :
            (EndsWith(line.name, "_info") /\ (~IsIntegerOne(line) \/ SampleHit(line) # 0))
                => IsErr(parse_sample(family, line).res)

\* C14 amended: in an Info family an _info line that the timestamp rule
\* drops (it hits a sample, both have timestamps and the line's is not the
\* smaller) is accepted without effect whatever its value; every other
\* _info line whose value is not the integer 1, or whose labelset already
\* has a sample, fails; the family holds at most one sample per labelset.
C14_InfoOncePerLabelsetUnlessDropped ==
    (pc = "family" /\ FamilyType = "Info") =>
        /\ \A line \in ValueLines :
                EndsWith(line.name, "_info") =>
                    LET r == parse_sample(family, line)
                    IN  IF DroppedByTimestamp(line)
                        THEN r.res = OkUnit /\ r.fam.metrics = family.metrics
                        ELSE (~IsIntegerOne(line) \/ SampleHit(line) # 0) => IsErr(r.res)
        /\ \A j, k \in 1..Len(family.metrics) :
                j < k => family.metrics[j].label_values # family.metrics[k].label_values

C14_Witness ==
    /\ pc = "family"
    /\ FamilyType = "Info"
    /\ hist.block.last = "dropped"
    /\ Unwrap(hist.block.line).value = "2"
    /\ Len(family.metrics) = 1

\* The lines that may carry an exemplar in the family being built.
ExemplarAdmissible(line) ==
    \/ FamilyType = "Counter" /\ EndsWith(line.name, "_total")
    \/ FamilyType \in {"Histogram", "GaugeHistogram"} /\ EndsWith(line.name, "_bucket")
NotAllowedExemplars == InvalidMetric("Metric Type is not allowed exemplars")

\* C15: a line with an exemplar that is not a _total line of a Counter
\* family or a _bucket line of a Histogram or GaugeHistogram family fails
\* with the exemplar error, whatever else is wrong with it, and leaves the
\* family as it was; no other line fails with that error.
C15_ExemplarAdmissibility ==
    pc = "family" =>
        \A line \in ValueLines :
            LET r == parse_sample(family, line)
            IN  IF IsSome(line.exemplar) /\ ~ExemplarAdmissible(line)
                THEN r.res = NotAllowedExemplars /\ r.fam = family
                ELSE r.res # NotAllowedExemplars

C15_Witness ==
    /\ Failed
    /\ Result = NotAllowedExemplars
    /\ family.family_type = Some("Counter")
    /\ Len(family.metrics) = 1

\* C16: a family block with a non-empty unit and no sample fails validation,
\* and no family of the result has a non-empty unit and no sample.
C16_UnitNeedsSamples ==
    /\ (pc = "family" /\ IsSome(family.unit) /\ Unwrap(family.unit) # ""
            /\ Len(family.metrics) = 0)
            => IsErr(FinishFamily(family))
    /\ \A i \in 1..Len(Families) :
            Families[i].unit # "" => Len(Families[i].samples) > 0

\* The sample names the spec allows in a family of name n and a type: n
\* itself for a row with the empty suffix, n and one suffix for another row.
AllowedNames(n, type) ==
    {n \o (IF Handlers(type)[i].suffix = "" THEN <<>> ELSE <<Handlers(type)[i].suffix>>) :
        i \in 1..Len(Handlers(type))}
\* A name less one suffix.
WithoutSuffix(name, suffix) ==
    IF suffix # "" /\ EndsWith(name, suffix) THEN SubSeq(name, 1, Len(name) - 1) ELSE name

\* C17: the name of a sample line accepted in a block is the family's name,
\* or the family's name and exactly one suffix of a row of the type; a line
\* whose name less the suffix of its row is not the bound family name fails.
C17_SampleNames ==
    pc = "family" =>
        /\ IsSome(hist.block.line) =>
                Unwrap(hist.block.line).name \in AllowedNames(Unwrap(family.name), FamilyType)
        /\ \A line \in ValueLines :
                LET at == SelectRow(FamilyType, line.name)
                IN  (/\ at # 0
                     /\ IsSome(family.name)
                     /\ WithoutSuffix(line.name, Handlers(FamilyType)[at].suffix)
                            # Unwrap(family.name))
                        => IsErr(parse_sample(family, line).res)

\* The suffixes the table of the spec gives each type.
TableSuffixes(type) ==
    CASE type = "Counter" -> {"_total", "_created"}
      [] type \in {"Gauge", "Unknown", "StateSet"} -> {""}
      [] type = "Info" -> {"_info"}
      [] type = "Histogram" -> {"_bucket", "_count", "_sum", "_created"}
      [] type = "GaugeHistogram" -> {"_bucket", "_gcount", "_gsum"}
      [] type = "Summary" -> {"_count", "_sum", ""}
WeirdName == InvalidMetric("Found weird metric name for type")
\* The lines that reach the search of the handler table.
ReachesTable(line) ==
    /\ IsOk(parse_labels(line.labels))
    /\ IsSome(ParseValue(line.value))
    /\ IsNone(line.exemplar)

\* C18: a sample line whose name ends with no suffix of the rows of the
\* family's type fails with the weird-name error and leaves the family as
\* it was: so do _created, _count and _sum lines in a GaugeHistogram family,
\* _gcount and _gsum lines in a Histogram family, and lines that end with
\* neither _total nor _created in a Counter family; a line whose name ends
\* with a suffix of the type never gets that error.
C18_NoRowNoSample ==
    pc = "family" =>
        \A line \in ValueLines :
            LET r == parse_sample(family, line)
                last == line.name[Len(line.name)]
            IN  ReachesTable(line) =>
                    /\ IF \E suffix \in TableSuffixes(FamilyType) : EndsWith(line.name, suffix)
                       THEN r.res # WeirdName
                       ELSE r.res = WeirdName /\ r.fam = family
                    /\ (FamilyType = "GaugeHistogram" /\ last \in {"_created", "_count", "_sum"})
                            => r.res = WeirdName
                    /\ (FamilyType = "Histogram" /\ last \in {"_gcount", "_gsum"})
                            => r.res = WeirdName
                    /\ (FamilyType = "Counter" /\ last \notin {"_total", "_created"})
                            => r.res = WeirdName

C18_Witness ==
    /\ Failed
    /\ Result = WeirdName
    /\ family.family_type = Some("GaugeHistogram")
    /\ Len(family.metrics) = 1

\* Two sequences with the same elements, each as many times.
IsPermutation(s, t) ==
    /\ Len(s) = Len(t)
    /\ \A i \in 1..Len(s) :
            Cardinality({j \in 1..Len(s) : s[j] = s[i]})
                = Cardinality({j \in 1..Len(t) : t[j] = s[i]})
\* Two lines that differ at most in the order of their labels.
SameButLabelOrder(l1, l2) ==
    /\ IsPermutation(l1.labels, l2.labels)
    /\ [l1 EXCEPT !.labels = <<>>] = [l2 EXCEPT !.labels = <<>>]

\* C19: two sample lines that differ only in the order in which their
\* labels are written have the same outcome on every family: the same
\* result and the same family afterwards (label names, samples, buckets and
\* quantiles), so the parse and its exposition do not depend on the order.
C19_LabelOrderIrrelevant ==
    pc = "family" =>
        \A l1, l2 \in PermutedLines :
            SameButLabelOrder(l1, l2) => parse_sample(family, l1) = parse_sample(family, l2)

C19_Witness ==
    /\ pc = "family"
    /\ IsSome(hist.block.line)
    /\ Unwrap(hist.block.line).labels = <<Label(Str("x"), "u"), Label(Str("a"), "u")>>
    /\ Unwrap(family.label_names).names = <<Str("a"), Str("x")>>
    /\ family.metrics[1].label_values = <<"u", "u">>

\* What the spec asks of a quantile: a bound in [0, 1], which excludes NaN,
\* and a value that is NaN or at least 0.
BoundInRange(q) == FLe(Zero, q) /\ FLe(q, One)
ValueNaNOrNonNegative(x) == IsNaN(x) \/ FGe(x, Zero)
\* The text of the quantile label of a line.
QuantileText(line) ==
    LET i == CHOOSE i \in 1..Len(line.labels) : line.labels[i].n = Str("quantile")
    IN  line.labels[i].v
IsQuantileLine(line) ==
    /\ \E i \in 1..Len(line.labels) : line.labels[i].n = Str("quantile")
    /\ ~EndsWith(line.name, "_count")
    /\ ~EndsWith(line.name, "_sum")

\* C20: every quantile of every Summary sample of a family that passed
\* validation has a bound in [0, 1] and a value that is NaN or at least 0;
\* in a Summary family a quantile line whose bound is outside [0, 1] or NaN,
\* or whose value is negative, fails.
C20_QuantileRange ==
    /\ \A i \in 1..Len(Families) :
            \A j \in 1..Len(Families[i].samples) :
                LET value == Families[i].samples[j].value
                IN  value.t = "Summary" =>
                        \A k \in 1..Len(value.quantiles) :
                            /\ BoundInRange(value.quantiles[k].quantile)
                            /\ ValueNaNOrNonNegative(as_f64(value.quantiles[k].value))
    /\ (pc = "family" /\ FamilyType = "Summary") =>
            \A line \in ValueLines :
                (/\ IsQuantileLine(line)
                 /\ \/ ~BoundInRange(Unwrap(ParseF64(QuantileText(line))))
                    \/ ~ValueNaNOrNonNegative(NumberOf(line)))
                    => IsErr(parse_sample(family, line).res)

C20_Witness ==
    /\ Succeeded
    /\ Len(Result.v) = 1
    /\ Result.v[1].family_type = "Summary"
    /\ Len(Result.v[1].samples) = 1
    /\ Len(Result.v[1].samples[1].value.quantiles) = 2
    /\ Result.v[1].samples[1].value.quantiles[1] = [quantile |-> One, value |-> MInt(1)]
    /\ IsNaN(as_f64(Result.v[1].samples[1].value.quantiles[2].value))

\* The label values of a line that are not those of the mandatory labels of
\* the row that takes it, in the order of the sorted labels.
OtherLabels(fam, line) ==
    LET type == UnwrapOrDefault(fam.family_type)
        row == Handlers(type)[SelectRow(type, line.name)]
    IN  SelectSeq(SortLabels(line.labels), LAMBDA l : ~Contains(row.mandatory, l.n))
OtherValues(fam, line) ==
    LET labels == OtherLabels(fam, line) IN [i \in 1..Len(labels) |-> labels[i].v]
SamplesOf(fam, values) == {i \in 1..Len(fam.metrics) : fam.metrics[i].label_values = values}

\* C21: the mandatory labels of the row are taken out before the sample is
\* looked up, and a family holds exactly one sample per distinct effective
\* labelset: no two samples have equal label values; an accepted line leaves
\* exactly one sample with the line's label values less the mandatory ones,
\* which is the sample that was there when there was one (so the bucket,
\* quantile, `_count`, `_sum` and `_created` lines of a labelset accumulate
\* in one sample) and a new one otherwise; the other samples stay as they
\* were.
C21_OneSamplePerLabelset ==
    pc = "family" =>
        /\ \A i, j \in 1..Len(family.metrics) :
                i < j => family.metrics[i].label_values # family.metrics[j].label_values
        /\ \A line \in PartLines :
                LET r == parse_sample(family, line)
                    values == OtherValues(family, line)
                    before == SamplesOf(family, values)
                IN  IsOk(r.res) =>
                        /\ Cardinality(SamplesOf(r.fam, values)) = 1
                        /\ before # {} => /\ SamplesOf(r.fam, values) = before
                                          /\ Len(r.fam.metrics) = Len(family.metrics)
                        /\ before = {} => /\ Len(r.fam.metrics) = Len(family.metrics) + 1
                                          /\ SamplesOf(r.fam, values) = {Len(r.fam.metrics)}
                        /\ \A i \in 1..Len(family.metrics) :
                                i \notin before => r.fam.metrics[i] = family.metrics[i]

\* A histogram whose bucket, count and sum lines, and a summary whose
\* quantile, count and sum lines, went into one sample.
C21_Witness ==
    /\ pc = "family"
    /\ hist.lines = 3
    /\ Len(family.metrics) = 1
    /\ family.metrics[1].label_values = <<"u">>
    /\ \/ /\ FamilyType = "Histogram"
          /\ Len(family.metrics[1].value.h.buckets) = 1
          /\ IsSome(family.metrics[1].value.h.count)
          /\ IsSome(family.metrics[1].value.h.sum)
       \/ /\ FamilyType = "Summary"
          /\ Len(family.metrics[1].value.quantiles) = 1
          /\ IsSome(family.metrics[1].value.count)
          /\ IsSome(family.metrics[1].value.sum)

MissingMandatory == InvalidMetric("Missing mandatory label for metric")
\* The line goes to a row of the family's type, and a mandatory label of
\* that row is not among the labels of the line.
LacksMandatory(fam, line) ==
    LET type == UnwrapOrDefault(fam.family_type)
        at == SelectRow(type, line.name)
        mandatory == Handlers(type)[at].mandatory
    IN  /\ at # 0
        /\ \E k \in 1..Len(mandatory) :
                \A i \in 1..Len(line.labels) : line.labels[i].n # mandatory[k]

\* C22: a line that goes to a row with a mandatory label and does not have
\* that label (a `_bucket` line without `le`, a Summary line with neither
\* `_count` nor `_sum` and without `quantile`) is rejected with
\* InvalidMetric, and the family and its samples are left as they were.
C22_MissingMandatoryLabel ==
    pc = "family" =>
        \A line \in PartLines :
            LET r == parse_sample(family, line)
                type == FamilyType
            IN  /\ LacksMandatory(family, line) =>
                        /\ r.res = IF IsNone(line.exemplar) \/ ExemplarAdmissible(line)
                                   THEN MissingMandatory
                                   ELSE NotAllowedExemplars
                        /\ r.fam = family
                /\ ( /\ type \in {"Histogram", "GaugeHistogram"}
                     /\ EndsWith(line.name, "_bucket")
                     /\ \A i \in 1..Len(line.labels) : line.labels[i].n # Str("le") )
                        => LacksMandatory(family, line)
                /\ ( /\ type = "Summary"
                     /\ ~EndsWith(line.name, "_count") /\ ~EndsWith(line.name, "_sum")
                     /\ \A i \in 1..Len(line.labels) : line.labels[i].n # Str("quantile") )
                        => LacksMandatory(family, line)

\* A `_bucket` line without `le`, or a Summary line without `quantile`, was
\* rejected in a family that had a sample.
C22_Witness ==
    /\ Failed
    /\ hist.raised = Some(MissingMandatory)
    /\ FamilyType \in {"Histogram", "GaugeHistogram", "Summary"}
    /\ Len(family.metrics) = 1

\* The scalar field of a sample's value that a line of this name sets, for
\* the multi-line types; "none" when the name sets no scalar field.
ScalarFieldName(t, name) ==
    CASE t = "Counter" /\ EndsWith(name, "_total") -> "value"
      [] t = "Counter" /\ EndsWith(name, "_created") -> "created"
      [] t = "Histogram" /\ EndsWith(name, "_count") -> "count"
      [] t = "Histogram" /\ EndsWith(name, "_sum") -> "sum"
      [] t = "Histogram" /\ EndsWith(name, "_created") -> "created"
      [] t = "GaugeHistogram" /\ EndsWith(name, "_gcount") -> "count"
      [] t = "GaugeHistogram" /\ EndsWith(name, "_gsum") -> "sum"
      [] t = "Summary" /\ EndsWith(name, "_count") -> "count"
      [] t = "Summary" /\ EndsWith(name, "_sum") -> "sum"
      [] OTHER -> "none"
ScalarFields(value) ==
    IF value.t \in {"Histogram", "GaugeHistogram"} THEN value.h
    ELSE IF value.t \in {"Counter", "Summary"} THEN value
    ELSE [t |-> value.t]
\* The line is a second line for a scalar field: the sample of its labelset
\* has the field the line would set.
SecondScalarLine(line) ==
    LET f == ScalarFieldName(FamilyType, line.name)
        hit == SampleHit(line)
    IN  /\ f # "none"
        /\ hit # 0
        /\ IsSome(ScalarFields(family.metrics[hit].value)[f])
\* The labelset of the line is a reopened one, or its value is not one the
\* field takes (a negative Summary sum).
ReopensOrBadValue(line) ==
    \/ Interwoven(family, OtherValues(family, line))
    \/ FamilyType = "Summary" /\ EndsWith(line.name, "_sum") /\ NegativeOrNaN(NumberOf(line))
\* A rule that is tested before the duplicate test fails for the line: one
\* of the above, or the timestamps clash.
FailsBeforeDuplicateTest(line) ==
    \/ ReopensOrBadValue(line)
    \/ TimestampsClash(family.metrics[SampleHit(line)].timestamp, line.timestamp)
\* No scalar field that is set in a sample of `before` differs in `after`.
ScalarsKept(before, after) ==
    \A i \in 1..Len(before) :
        LET old == ScalarFields(before[i].value)
            new == ScalarFields(after[i].value)
        IN  \A f \in DOMAIN old \ {"t", "buckets", "quantiles"} :
                IsSome(old[f]) => new[f] = old[f]

FurtherLineOf(fam, line) ==
    LET labels == SortLabels(line.labels)
    IN  /\ IsNone(line.exemplar)
        /\ fam.name = Some(line.name)
        /\ IsSome(fam.label_names)
        /\ Unwrap(fam.label_names).names = [i \in 1..Len(labels) |-> labels[i].n]
        /\ SamplesOf(fam, [i \in 1..Len(labels) |-> labels[i].v]) # {}
        /\ ~Interwoven(fam, [i \in 1..Len(labels) |-> labels[i].v])

\* C24: in a Gauge, Unknown or StateSet family, a further line with the
\* labelset of a sample, where neither the sample nor the line has a
\* timestamp, fails with the duplicate error: it is not dropped, and the
\* sample keeps its value.
C24_SingleLineDuplicate ==
    (pc = "family" /\ FamilyType \in {"Gauge", "Unknown", "StateSet"}) =>
        \A line \in BlockLines :
            LET r == parse_sample(family, line)
            IN  ( /\ FurtherLineOf(family, line)
                  /\ IsNone(family.metrics[SampleHit(line)].timestamp)
                  /\ IsNone(line.timestamp) )
                    => /\ r.res = DuplicateMetric
                       /\ r.path = "ran"
                       /\ r.fam.metrics = family.metrics

\* A second line without timestamp for the labelset of a sample without
\* timestamp failed with the duplicate error.
C24_Witness ==
    /\ Failed
    /\ hist.raised = Some(DuplicateMetric)
    /\ FamilyType \in {"Gauge", "Unknown", "StateSet"}
    /\ Len(family.metrics) = 1
    /\ IsNone(family.metrics[1].timestamp)
    /\ IsSome(family.metrics[1].value.v)

\* Exactly one of the sum and the count of a histogram value is present.
OneOfSumAndCount(h) == IsSome(h.sum) # IsSome(h.count)

\* C25: in the result of a successful parse every Histogram and
\* GaugeHistogram sample has a sum exactly when it has a count, and a family
\* with a sample that has one of the two and not the other is rejected when
\* it is validated.
C25_SumIffCount ==
    /\ Succeeded =>
            \A i \in 1..Len(Result.v) :
                \A k \in 1..Len(Result.v[i].samples) :
                    LET value == Result.v[i].samples[k].value
                    IN  IsHistogram(value) => ~OneOfSumAndCount(value.h)
    /\ ( /\ pc = "family"
         /\ \E k \in 1..Len(family.metrics) :
                /\ IsHistogram(family.metrics[k].value)
                /\ OneOfSumAndCount(family.metrics[k].value.h) )
            => /\ IsErr(FinishFamily(family))
               /\ FinishFamily(family).kind = "InvalidMetric"

\* A histogram with a +Inf bucket and one of sum and count was rejected by
\* the test on the two.
C25_Witness ==
    /\ Failed
    /\ hist.raised \in {Some(InvalidMetric("Count must be present if sum is present")),
                        Some(InvalidMetric("Sum must be present if count is present"))}
    /\ \E k \in 1..Len(family.metrics) :
            /\ IsHistogram(family.metrics[k].value)
            /\ OneOfSumAndCount(family.metrics[k].value.h)

SumWithNegativeBucket == InvalidMetric("Histograms cannot have a sum with a negative bucket")
NegativeSum == InvalidMetric("Histograms cannot have a negative sum without a negative bucket")
HasNegativeBucket(h) == \E i \in 1..Len(h.buckets) : FLt(h.buckets[i].upper_bound, Zero)
HasInfBucket(h) == \E i \in 1..Len(h.buckets) : FEq(h.buckets[i].upper_bound, PInf)
\* The sample with one labelset that the family may hold after one more line.
OnlySample(fam) == fam.metrics[1].value

\* C26: when a family is validated, a Histogram sample with a bucket of
\* negative bound and a sum is rejected (by this rule when it has a +Inf
\* bucket); a GaugeHistogram sample of that kind is never rejected by this
\* rule, and passes validation when it has a +Inf bucket, a count and
\* cumulative buckets; a sample of either type without a bucket of negative
\* bound and with a sum below 0 is rejected (by this rule when it has a +Inf
\* bucket).
C26_NegativeBucketAndSum ==
    pc = "family" =>
        \A line \in PartLines :
            LET r == parse_sample(family, line)
                value == OnlySample(r.fam)
                valid == FamilyValidate(r.fam)
            IN  (IsOk(r.res) /\ Len(r.fam.metrics) = 1 /\ IsHistogram(value)) =>
                    /\ (value.t = "Histogram" /\ HasNegativeBucket(value.h) /\ IsSome(value.h.sum))
                            => /\ IsErr(valid)
                               /\ HasInfBucket(value.h) => valid = SumWithNegativeBucket
                    /\ (value.t = "GaugeHistogram" /\ HasNegativeBucket(value.h)
                            /\ IsSome(value.h.sum))
                            => /\ valid # SumWithNegativeBucket
                               /\ (HasInfBucket(value.h) /\ IsSome(value.h.count)
                                        /\ NoDecrease(value.h.buckets)) => IsOk(valid)
                    /\ (~HasNegativeBucket(value.h) /\ IsSome(value.h.sum)
                            /\ FLt(as_f64(Unwrap(value.h.sum)), Zero))
                            => /\ IsErr(valid)
                               /\ HasInfBucket(value.h) => valid = NegativeSum

\* A Histogram with a bucket below 0, a +Inf bucket and a sum was rejected
\* by the rule.
C26_Witness ==
    /\ Failed
    /\ hist.raised = Some(SumWithNegativeBucket)
    /\ FamilyType = "Histogram"
    /\ HasNegativeBucket(family.metrics[1].value.h)
    /\ IsSome(family.metrics[1].value.h.sum)

\* The effective label-name list of a line: the names of its labels without
\* the mandatory labels of its row.
OtherNames(fam, line) ==
    LET labels == OtherLabels(fam, line) IN [i \in 1..Len(labels) |-> labels[i].n]
DifferentLabelNames == InvalidMetric("Family has different label names")

\* C27: the first accepted sample line of a family binds the family's label
\* names to the line's effective label-name list; a later line with another
\* effective list is rejected and an accepted one leaves the bound list as
\* it is, so every accepted line of the family has the bound list.
C27_LabelNamesBound ==
    pc = "family" =>
        /\ IsSome(family.label_names) <=> SampleTrace # <<>>
        /\ \A k \in 1..Len(SampleTrace) :
                SampleTrace[k].names = Unwrap(family.label_names).names
        /\ \A line \in BlockLines :
                LET r == parse_sample(family, line)
                    type == FamilyType
                IN  IF SelectRow(type, line.name) = 0 \/ LacksMandatory(family, line)
                    THEN IsErr(r.res)
                    ELSE /\ IsOk(r.res) =>
                                /\ IsSome(r.fam.label_names)
                                /\ Unwrap(r.fam.label_names).names = OtherNames(family, line)
                         /\ ( /\ IsSome(family.label_names)
                              /\ Unwrap(family.label_names).names # OtherNames(family, line) )
                                => /\ IsErr(r.res)
                                   /\ r.res.kind = "InvalidMetric"
                                   /\ r.fam.metrics = family.metrics

\* A line whose effective label names are not the bound ones was rejected
\* for that.
C27_Witness ==
    /\ Failed
    /\ hist.raised = Some(DifferentLabelNames)
    /\ IsSome(family.label_names)
    /\ Len(family.metrics) > 0

UnitNameMismatch == InvalidMetric("UNIT metric name doesn't match family")
UnitDescriptors == {d \in Descriptors : d.kw = "kw_unit"}

\* C28: a UNIT descriptor is rejected with InvalidMetric when the family
\* has no name yet or has another name than the descriptor's, and the
\* family's unit is unset then and stays so; the unit is never set while the
\* family has no name.
C28_UnitNeedsBoundName ==
    pc = "family" =>
        /\ IsNone(family.name) => IsNone(family.unit)
        /\ \A d \in UnitDescriptors :
                LET r == DescriptorChild(family, d)
                IN  (IsNone(family.name) \/ Unwrap(family.name) # d.name) =>
                        /\ IsErr(r)
                        /\ r.kind = "InvalidMetric"
                        /\ Len(family.metrics) = 0 => r = UnitNameMismatch
                        /\ IsNone(family.unit)

\* A UNIT descriptor was rejected because the family has another name or
\* none, and the family is without unit.
C28_Witness ==
    /\ Failed
    /\ hist.raised = Some(UnitNameMismatch)
    /\ IsNone(family.unit)
    /\ family.name \in {None, Some(Str("b"))}

\* The bucket a `_bucket` line describes: its value, its `le` and its
\* exemplar.
LeOf(line) == (CHOOSE i \in 1..Len(line.labels) : line.labels[i].n = Str("le"))
BucketOf(line) ==
    [count |-> Unwrap(ParseValue(line.value)),
     upper_bound |-> Unwrap(ParseF64(line.labels[LeOf(line)].v)),
     exemplar |-> line.exemplar]
BucketsOf(fam, k) == IF k <= Len(fam.metrics) THEN fam.metrics[k].value.h.buckets ELSE <<>>

\* C29: in a Histogram or GaugeHistogram family an accepted `_bucket` line
\* appends the bucket it describes at the end of the buckets of the sample
\* of its effective labelset, and leaves the buckets of the other samples
\* as they were; an accepted line of another name leaves every bucket list
\* as it was; the conversion to the result copies the lists.  So the list
\* is the sequence of the accepted `_bucket` lines of the labelset, in
\* order.
C29_BucketsInOrder ==
    (pc = "family" /\ IsHistogram(get_type_value(FamilyType))) =>
        /\ \A line \in ValueLines \cup PartLines :
                LET r == parse_sample(family, line)
                    at == CHOOSE k \in SamplesOf(r.fam, OtherValues(family, line)) : TRUE
                IN  IsOk(r.res) =>
                        \A k \in 1..Len(r.fam.metrics) :
                            BucketsOf(r.fam, k) =
                                IF EndsWith(line.name, "_bucket") /\ k = at
                                THEN Append(BucketsOf(family, k), BucketOf(line))
                                ELSE BucketsOf(family, k)
        /\ LET f == FinishFamily(family)
           IN  IsOk(f) =>
                    /\ Len(f.v.samples) = Len(family.metrics)
                    /\ \A k \in 1..Len(family.metrics) :
                            f.v.samples[k].value.h.buckets = BucketsOf(family, k)

\* A sample holds the buckets of three accepted lines in the order of the
\* lines, which is not the order of the bounds.
C29_Witness ==
    /\ pc = "family"
    /\ IsHistogram(get_type_value(FamilyType))
    /\ Len(family.metrics) = 1
    /\ Len(BucketsOf(family, 1)) = 3
    /\ BucketsOf(family, 1)[1].upper_bound = PInf
    /\ BucketsOf(family, 1)[2].upper_bound = Fin(2)
    /\ BucketsOf(family, 1)[3].upper_bound = PInf

\* The last sample line accepted, which ran its action, carried an
\* exemplar.
ExemplarLineRan ==
    /\ pc = "family"
    /\ IsSome(hist.block.line)
    /\ IsSome(Unwrap(hist.block.line).exemplar)
    /\ hist.block.last \in {"ran", "created"}
LastLine == Unwrap(hist.block.line)
LastSample == family.metrics[SampleHit(LastLine)]

\* C30: after an accepted line with an exemplar, the exemplar is on the
\* bucket the line appended when the line is a `_bucket` line of a Histogram
\* or GaugeHistogram, and on the counter sample when it is a `_total` line
\* of a Counter; the conversion to the result keeps it.
C30_ExemplarRetained ==
    ExemplarLineRan =>
        /\ IsHistogram(LastSample.value) =>
                LET buckets == LastSample.value.h.buckets
                IN  /\ buckets[Len(buckets)].exemplar = LastLine.exemplar
                    /\ ValueInto(LastSample.value).h.buckets = buckets
        /\ LastSample.value.t = "Counter" =>
                /\ LastSample.value.exemplar = LastLine.exemplar
                /\ ValueInto(LastSample.value).exemplar = LastLine.exemplar

\* The exemplar of an accepted `_bucket` line is on the bucket the line
\* appended.
BucketExemplarRetained ==
    (ExemplarLineRan /\ IsHistogram(LastSample.value)) =>
        LET buckets == LastSample.value.h.buckets
        IN  buckets[Len(buckets)].exemplar = LastLine.exemplar

LabelTwice == InvalidMetric("Found label twice in the same labelset")
HasNameTwice(labels) == \E i, j \in 1..Len(labels) : i < j /\ labels[i].n = labels[j].n

\* C31: a sample line whose label block has a label name twice fails with
\* InvalidMetric and leaves the family as it was, whatever the family holds;
\* the names of a label block that parse_labels returns are pairwise
\* different.
C31_LabelNamesDistinct ==
    pc = "family" =>
        \A line \in ValueLines \cup DuplicateLabelLines :
            LET r == parse_sample(family, line)
                labels == parse_labels(line.labels)
            IN  /\ HasNameTwice(line.labels) =>
                        /\ r.res = LabelTwice
                        /\ r.path = "none"
                        /\ r.fam = family
                /\ IsOk(labels) =>
                        /\ ~HasNameTwice(labels.v)
                        /\ Len(labels.v) = Len(line.labels)

\* A line with a label name twice was rejected in a family with a sample.
C31_Witness ==
    /\ Failed
    /\ hist.raised = Some(LabelTwice)
    /\ Len(family.metrics) > 0

\* C32: a sample gets its timestamp from the line that creates it, and no
\* later line, accepted or not, changes the timestamp of a sample; a line
\* that reaches a sample of its labelset is rejected by the timestamp rules
\* exactly when its timestamp clashes with the one the sample has had since
\* it was created; the conversion to the result copies the timestamp.
C32_TimestampOfFirstLine ==
    pc = "family" =>
        /\ \A line \in PartLines \cup BlockLines :
                LET r == parse_sample(family, line)
                IN  /\ Len(r.fam.metrics) >= Len(family.metrics)
                    /\ \A i \in 1..Len(family.metrics) :
                            r.fam.metrics[i].timestamp = family.metrics[i].timestamp
                    /\ r.path = "created" =>
                            /\ Len(r.fam.metrics) = Len(family.metrics) + 1
                            /\ r.fam.metrics[Len(r.fam.metrics)].timestamp = line.timestamp
                    /\ r.path \in {"rejected", "dropped", "ran"} =>
                            /\ SampleHit(line) # 0
                            /\ r.path = "rejected" <=>
                                    TimestampsClash(family.metrics[SampleHit(line)].timestamp,
                                                    line.timestamp)
        /\ \A i \in 1..Len(family.metrics) :
                SampleFrom(family.metrics[i]).timestamp = family.metrics[i].timestamp

\* A line with timestamp 2 ran its action on a sample that a line with
\* timestamp 1 created, and the sample still has timestamp 1.
C32_Witness ==
    /\ pc = "family"
    /\ hist.block.last = "ran"
    /\ Unwrap(hist.block.line).timestamp = Some(2)
    /\ Len(family.metrics) = 1
    /\ family.metrics[1].timestamp = Some(1)

NameAndLabelNamesBound(fam) ==
    Len(fam.metrics) > 0 => IsSome(fam.name) /\ IsSome(fam.label_names)
UnwrapOrAssertFails(r) == r \in {Panic("unwrap of label_names"), Panic("assert name is some")}

\* C33: a family that holds a sample has its name and its label names
\* bound, in every state of the builder and in the family any line leaves
\* behind; so the validation of a sample never unwraps absent label names,
\* and the conversion of a validated family never fails its assertion on
\* the name.
C33_BoundWhenSamples ==
    /\ NameAndLabelNamesBound(family)
    /\ pc = "family" =>
            /\ \A line \in BlockLines : NameAndLabelNamesBound(parse_sample(family, line).fam)
            /\ \A i \in 1..Len(family.metrics) :
                    ~UnwrapOrAssertFails(MetricValidate(family.metrics[i], family))
            /\ ~UnwrapOrAssertFails(FamilyValidate(family))
            /\ ~UnwrapOrAssertFails(FinishFamily(family))
            /\ IsOk(FamilyValidate(family)) => IsSome(family.name)
    /\ IsSome(hist.raised) => ~UnwrapOrAssertFails(Unwrap(hist.raised))

\* A family with a sample without labels, the case in which the validator
\* unwraps the label names, was validated and converted.
C33_Witness ==
    /\ pc = "family"
    /\ Len(family.metrics) > 0
    /\ family.metrics[1].label_values = <<>>
    /\ IsSome(family.label_names)
    /\ IsOk(FinishFamily(family))

ScalarTypes == {"Gauge", "Unknown", "StateSet"}
AllScalarsSet(fam) == \A i \in 1..Len(fam.metrics) : ~ValueUnset(fam.metrics[i].value)
UnsetScalarUnwrapped == Panic("unwrap of an unset scalar")

\* C34: after every line that returned success each Gauge, Unknown and
\* StateSet sample of the family has its scalar set, so the conversion of a
\* family never unwraps an unset scalar, and the samples of these types in
\* the result carry the value of their line.
C34_ScalarsSet ==
    /\ pc = "family" =>
            /\ AllScalarsSet(family)
            /\ \A line \in BlockLines :
                    LET r == parse_sample(family, line)
                    IN  IsOk(r.res) => AllScalarsSet(r.fam)
            /\ FinishFamily(family) # UnsetScalarUnwrapped
    /\ hist.raised # Some(UnsetScalarUnwrapped)
    /\ Succeeded =>
            \A i \in 1..Len(Result.v) :
                \A k \in 1..Len(Result.v[i].samples) :
                    Result.v[i].samples[k].value.t \in ScalarTypes =>
                        Result.v[i].samples[k].value.v.k \in {"Int", "Float"}

\* A parse succeeded with a family of one of the scalar types that has a
\* sample.
C34_Witness ==
    /\ Succeeded
    /\ \E i \in 1..Len(Result.v) :
            /\ Result.v[i].family_type \in ScalarTypes
            /\ Len(Result.v[i].samples) > 0
            /\ Result.v[i].samples[1].value.v = MInt(1)

\* The family with its type declared as Unknown, and a family with its
\* type taken away again.
TypedUnknown(fam) == [fam EXCEPT !.family_type = Some("Unknown")]
Untyped(fam) == [fam EXCEPT !.family_type = None]

\* C35: in a family block without TYPE descriptor every sample line is
\* processed as in a family of declared type Unknown (same result, same
\* path, same family but for the absent type): an accepted line has the
\* family's name as its name, a line with an exemplar is rejected, a further
\* line without timestamp for a sample without timestamp is a duplicate,
\* a created sample has an Unknown value; and the family converts to a
\* family of type Unknown.
C35_UntypedIsUnknown ==
    (pc = "family" /\ IsNone(family.family_type)) =>
        /\ \A line \in BlockLines :
                LET r == parse_sample(family, line)
                    u == parse_sample(TypedUnknown(family), line)
                IN  /\ r.res = u.res
                    /\ r.path = u.path
                    /\ r.fam = Untyped(u.fam)
                    /\ IsSome(line.exemplar) => r.res = NotAllowedExemplars
                    /\ IsOk(r.res) =>
                            /\ r.fam.name = Some(line.name)
                            /\ IsSome(family.name) => family.name = Some(line.name)
                    /\ ( /\ FurtherLineOf(family, line)
                         /\ IsNone(family.metrics[SampleHit(line)].timestamp)
                         /\ IsNone(line.timestamp) ) => r.res = DuplicateMetric
                    /\ r.path = "created" =>
                            r.fam.metrics[Len(r.fam.metrics)].value.t = "Unknown"
        /\ LET f == FinishFamily(family)
           IN  IsOk(f) =>
                    /\ f.v.family_type = "Unknown"
                    /\ \A k \in 1..Len(f.v.samples) : f.v.samples[k].value.t = "Unknown"

\* A block without TYPE descriptor took sample lines and converts to a
\* family of type Unknown.
C35_Witness ==
    /\ pc = "family"
    /\ IsNone(family.family_type)
    /\ Len(family.metrics) > 0
    /\ IsOk(FinishFamily(family))
    /\ FinishFamily(family).v.family_type = "Unknown"

====
